---- MODULE Spec2Model ----
(***************************************************************************)
(* Middleware dispatch, response context and route table of the fiver      *)
(* (uFiber) framework.                                                     *)
(*                                                                         *)
(* The dispatcher is modelled as the JavaScript run-time sees it: every    *)
(* call of compose's dispatch(i) is a frame, the synchronously running     *)
(* frames form the call stack, and a frame suspended at an await resumes   *)
(* only when the call stack is empty.  The Context is modelled by its      *)
(* fields and by the calls it makes on the underlying response.  The       *)
(* matcher behind Router is not part of the sources; the route table       *)
(* follows the specification's Building/Frozen state machine.              *)
(*                                                                         *)
(* Spec        one request through compose or Fiber.#dispatch              *)
(* SpecConc    two requests in flight over one route table                 *)
(* SpecSingle  one request over a one-handler route, ufiber.ts and app.ts  *)
(* SpecSub     one request over handlers taken over from a mounted router  *)
(* SpecTerm    one composed call run to its end by the run-time            *)
(* SpecCtx     one Context and the calls made on it                        *)
(* SpecEnd     one Context, its end calls and the microtasks they queue    *)
(* SpecAbort   one Context, its abort callbacks and the client going away  *)
(* SpecErr     one Context and the errorHandler middleware                 *)
(* SpecBody    one request body: chunks, reads, abort                      *)
(* SpecText    one request body read as text, several times                *)
(* SpecRouter  one route table: add, build, match                          *)
(* SpecMatcher one route table with multi-segment patterns                 *)
(* SpecMount   two routers, one mounted on the other                      *)
(***************************************************************************)
EXTENDS Integers, Sequences, FiniteSets, TLC

(* ------------------------------ bounds --------------------------------- *)

\* Longest handler chain drawn for a request.
MaxChain == 3

\* Most dispatch frames one request may create (a handler that calls its
\* continuation twice doubles the frames below it).
MaxFrames == 8

\* Longest handler chain of the requests that are dispatched side by side.
MaxConcChain == 2

\* Most calls a handler makes on one context.
MaxCalls == 3

\* Most operations (add, build, match) applied to one route table.
MaxOps == 3

\* Most abort notifications one context receives.
MaxNotify == 2

\* Most chunks of one request body, and most reads of it.
MaxChunks == 3
MaxReads == 2

(* ------------------------- handlers as scripts ------------------------- *)

\* What a handler does, one operation after the other:
\*   work   a synchronous step of the handler's own code
\*   sleep  await of the handler's own asynchronous work
\*   next   await next()
\*   call   next() without awaiting the promise it returns
\*   throw  throw an error synchronously, before anything was awaited
\*   fail   throw after an await: the handler's promise rejects
\*   ret    return
Script(kind) ==
  CASE kind = "end"    -> <<"work", "ret">>
    [] kind = "pass"   -> <<"work", "next", "work", "ret">>
    [] kind = "fire"   -> <<"work", "call", "work", "ret">>
    [] kind = "slow"   -> <<"sleep", "work", "next", "work", "ret">>
    [] kind = "throw"  -> <<"work", "throw">>
    [] kind = "reject" -> <<"sleep", "fail">>
    [] kind = "twice"  -> <<"next", "next", "ret">>

Kinds == {"end", "pass", "fire", "slow", "throw", "reject", "twice"}

\* Behaviours of the outer next handed to a composed function.
NextKinds == {"throw", "pass"}

RECURSIVE SeqsUpTo(_, _)
SeqsUpTo(S, n) ==
  IF n = 0 THEN {<<>>}
  ELSE LET shorter == SeqsUpTo(S, n - 1)
       IN shorter \cup {Append(s, x) : s \in {t \in shorter : Len(t) = n - 1}, x \in S}

Chains == SeqsUpTo(Kinds, MaxChain)

\* What router.match returns: the handler chain, or no match (null).
NoMatch == [found |-> FALSE, chain |-> <<>>]
Found(ch) == [found |-> TRUE, chain |-> ch]
NoErr == "none"
NoNext == "none"

\* compose.ts:28
DoubleNextMsg == "next() called multiple times"

\* The error a handler of chain index i throws.
HandlerErr(i) == "E" \o ToString(i)

\* The error a throwing error handler throws.
OnErrorErr == "EH"

Methods == {"GET", "HEAD", "POST"}

(* ------------------------------ state ---------------------------------- *)

VARIABLES
  cfg,         \* per request: how it is dispatched, and the route table it meets
  match,       \* per request: ctx[kMatch], the handler chain handed to compose
  frames,      \* per request: the dispatch frames, in creation order
  stack,       \* the call stack: <<request, frame>> pairs, top last
  log,         \* per request: what was invoked, in order
  routeIndex,  \* per request: ctx[kCtxReq].routeIndex
  top,         \* per request: what Fiber.#dispatch did with the outcome
  ctx,         \* one Context: its fields
  res,         \* the calls made on that context's underlying response
  micro,       \* the microtasks that context has queued
  calls,       \* the calls a handler made on the context, with their outcome
  ran,         \* the callbacks run for the context, in order
  notified,    \* how many abort notifications the context has received
  handled,     \* the errors the errorHandler middleware was given, and its answers
  reqBody,     \* the request's body: its stream, the reads of it and their cache
  phase,       \* the route table's state: "Building" or "Frozen"
  table,       \* the routes the matcher holds, in registration order
  routes,      \* Router.routes
  last,        \* the last operation on the route table and its outcome
  sub          \* a second Router, to be mounted: its matcher state and routes

dispVars == <<cfg, match, frames, stack, log, routeIndex, top>>
ctxVars == <<ctx, res, micro, calls, ran, notified, reqBody, handled>>
routerVars == <<phase, table, routes, last, sub>>
vars == <<dispVars, ctxVars, routerVars>>

Reqs == DOMAIN cfg

Event(ev, i, f, c, e) == [ev |-> ev, i |-> i, f |-> f, ctx |-> c, err |-> e]

Frame(i, role, kind, parent, awaited, st, e) ==
  [idx |-> i, role |-> role, kind |-> kind, parent |-> parent,
   awaited |-> awaited, pc |-> 1, st |-> st, err |-> NoErr, rej |-> e,
   nexts |-> 0, child |-> 0]

Settled(fr) == fr.st \in {"resolved", "rejected"}

(* ---------------------------- compose ---------------------------------- *)

\* compose.ts:22  const index = -1 (never reassigned)
ComposeIndex == 0 - 1

\* compose.ts:27  if (i <= index)
DoubleNext(i) == i <= ComposeIndex

\* compose.ts:31-37  which callable dispatch(i) runs
HandlerAt(mw, i, next) ==
  IF i < Len(mw) THEN "handler"
  ELSE IF i = Len(mw) /\ next # NoNext THEN "next"
  ELSE "none"

\* compose.ts:34  the route index is written only when middleware[i] exists
RouteIndexAt(mw, i, old) == IF i < Len(mw) THEN i ELSE old

\* Mutant of NotFoundEvents: the not-found handler is invoked a second time.
NotFoundTwice(hasNotFound, i, fid, r) ==
  IF hasNotFound
  THEN <<Event("notFound", i, fid, r, NoErr), Event("notFound", i, fid, r, NoErr)>>
  ELSE <<>>

\* compose.ts:41  if (options?.onNotFound) await options.onNotFound(ctx)
NotFoundEvents(hasNotFound, i, fid, r) ==
  IF hasNotFound THEN <<Event("notFound", i, fid, r, NoErr)>> ELSE <<>>

\* compose.ts:26-46  dispatch(i) up to the point where it first suspends or
\* returns: the new frame, the events it logs, whether the handler it called
\* is now on the call stack, and the route index it leaves.
Dispatch(r, mw, i, parent, awaited) ==
  LET c    == cfg[r]
      fid  == Len(frames[r]) + 1
      role == HandlerAt(mw, i, c.next)
      ri   == routeIndex[r]
  IN  CASE DoubleNext(i) ->
             [fr |-> Frame(i, "none", "none", parent, awaited, "rejected", DoubleNextMsg),
              evs |-> <<>>, push |-> FALSE, ri |-> ri]
        [] ~DoubleNext(i) /\ role = "handler" ->
             [fr |-> Frame(i, role, mw[i + 1], parent, awaited, "run", NoErr),
              evs |-> <<Event("enter", i, fid, r, NoErr)>>, push |-> TRUE,
              ri |-> RouteIndexAt(mw, i, ri)]
        [] ~DoubleNext(i) /\ role = "next" ->
             [fr |-> Frame(i, role, c.next, parent, awaited, "run", NoErr),
              evs |-> <<Event("enter", i, fid, r, NoErr)>>, push |-> TRUE, ri |-> ri]
        [] ~DoubleNext(i) /\ role = "none" /\ c.hasNotFound ->
             [fr |-> Frame(i, role, "none", parent, awaited, "hdone", NoErr),
              evs |-> NotFoundEvents(c.hasNotFound, i, fid, r), push |-> FALSE, ri |-> ri]
        [] ~DoubleNext(i) /\ role = "none" /\ ~c.hasNotFound ->
             [fr |-> Frame(i, role, "none", parent, awaited, "resolved", NoErr),
              evs |-> <<>>, push |-> FALSE, ri |-> ri]

\* ufiber.ts:106  the continuation of the single handler Fiber calls without
\* compose: async () => await this[kNotFound](ctx)
FiberNext(r, parent, awaited) ==
  LET fid == Len(frames[r]) + 1
  IN  [fr |-> Frame(1, "none", "none", parent, awaited, "hdone", NoErr),
       evs |-> NotFoundEvents(TRUE, 1, fid, r), push |-> FALSE,
       ri |-> routeIndex[r]]

\* Mutant of Continuation: the chain position is kept in one place for all
\* requests, so next() goes on from the furthest position any request reached.
ContinuationShared(r, f, awaited) ==
  LET far == CHOOSE i \in {routeIndex[q] : q \in Reqs} :
               \A j \in {routeIndex[q] : q \in Reqs} : j <= i
  IN  Dispatch(r, match[r].chain, far + 1, f, awaited)

\* Mutant of Continuation: next() of frame i runs dispatch(i + 2).
ContinuationSkips(r, f, awaited) ==
  Dispatch(r, match[r].chain, frames[r][f].idx + 2, f, awaited)

\* compose.ts:46 / ufiber.ts:106  what next() of frame f runs
Continuation(r, f, awaited) ==
  IF frames[r][f].role = "direct"
  THEN FiberNext(r, f, awaited)
  ELSE Dispatch(r, match[r].chain, frames[r][f].idx + 1, f, awaited)

(* --------------------------- the call stack ---------------------------- *)

Running(r, f) == stack # <<>> /\ stack[Len(stack)] = <<r, f>>

Pop(stk) == SubSeq(stk, 1, Len(stk) - 1)

Op(r, f) == Script(frames[r][f].kind)[frames[r][f].pc]

\* The handler's own code before (pre) and after (post) its first next().
Work(r, f) ==
  /\ Running(r, f)
  /\ Op(r, f) = "work"
  /\ LET fr == frames[r][f]
     IN  /\ log' = [log EXCEPT ![r] =
                      Append(@, Event(IF fr.nexts = 0 THEN "pre" ELSE "post",
                                      fr.idx, f, r, NoErr))]
         /\ frames' = [frames EXCEPT ![r][f].pc = @ + 1]
  /\ UNCHANGED <<cfg, match, stack, routeIndex, top>>
  /\ UNCHANGED <<ctxVars, routerVars>>

\* The handler awaits its own asynchronous work and leaves the call stack.
Sleep(r, f) ==
  /\ Running(r, f)
  /\ Op(r, f) = "sleep"
  /\ frames' = [frames EXCEPT ![r][f].pc = @ + 1, ![r][f].st = "sleep"]
  /\ stack' = Pop(stack)
  /\ UNCHANGED <<cfg, match, log, routeIndex, top>>
  /\ UNCHANGED <<ctxVars, routerVars>>

\* await next(): the continuation runs now, the handler waits for its promise.
AwaitNext(r, f) ==
  /\ Running(r, f)
  /\ Op(r, f) = "next"
  /\ Len(frames[r]) < MaxFrames
  /\ LET d   == Continuation(r, f, TRUE)
         fid == Len(frames[r]) + 1
     IN  /\ frames' = [frames EXCEPT ![r] =
                         Append([@ EXCEPT ![f].st = "wait", ![f].child = fid,
                                          ![f].nexts = @ + 1], d.fr)]
         /\ log' = [log EXCEPT ![r] = @ \o d.evs]
         /\ stack' = IF d.push THEN Append(Pop(stack), <<r, fid>>) ELSE Pop(stack)
         /\ routeIndex' = [routeIndex EXCEPT ![r] = d.ri]
  /\ UNCHANGED <<cfg, match, top>>
  /\ UNCHANGED <<ctxVars, routerVars>>

\* next() without await: the continuation runs now, on top of the handler,
\* and the handler goes on when the continuation suspends or returns.
CallNext(r, f) ==
  /\ Running(r, f)
  /\ Op(r, f) = "call"
  /\ Len(frames[r]) < MaxFrames
  /\ LET d   == Continuation(r, f, FALSE)
         fid == Len(frames[r]) + 1
     IN  /\ frames' = [frames EXCEPT ![r] =
                         Append([@ EXCEPT ![f].pc = @ + 1, ![f].nexts = @ + 1], d.fr)]
         /\ log' = [log EXCEPT ![r] = @ \o d.evs]
         /\ stack' = IF d.push THEN Append(stack, <<r, fid>>) ELSE stack
         /\ routeIndex' = [routeIndex EXCEPT ![r] = d.ri]
  /\ UNCHANGED <<cfg, match, top>>
  /\ UNCHANGED <<ctxVars, routerVars>>

\* Mutant of Return: the dispatcher runs dispatch(i + 1) itself when a
\* handler returns, whether or not the handler called next.
ReturnFallsThrough(r, f) ==
  /\ Running(r, f)
  /\ Op(r, f) = "ret"
  /\ Len(frames[r]) < MaxFrames
  /\ LET d   == Continuation(r, f, TRUE)
         fid == Len(frames[r]) + 1
     IN  /\ frames' = [frames EXCEPT ![r] = Append([@ EXCEPT ![f].st = "hdone"], d.fr)]
         /\ log' = [log EXCEPT ![r] = @ \o d.evs]
         /\ stack' = IF d.push THEN Append(Pop(stack), <<r, fid>>) ELSE Pop(stack)
         /\ routeIndex' = [routeIndex EXCEPT ![r] = d.ri]
  /\ UNCHANGED <<cfg, match, top>>
  /\ UNCHANGED <<ctxVars, routerVars>>

\* The handler returns: its frame's await (compose.ts:46) has a value.
Return(r, f) ==
  /\ Running(r, f)
  /\ Op(r, f) = "ret"
  /\ frames' = [frames EXCEPT ![r][f].st = "hdone"]
  /\ stack' = Pop(stack)
  /\ UNCHANGED <<cfg, match, log, routeIndex, top>>
  /\ UNCHANGED <<ctxVars, routerVars>>

\* Mutant of Caught: with no error handler the error is dropped and the
\* frame's promise resolves.
CaughtSwallows(onError, err) ==
  CASE onError = "none"   -> [called |-> FALSE, st |-> "resolved", rej |-> NoErr]
    [] onError = "ok"     -> [called |-> TRUE,  st |-> "resolved", rej |-> NoErr]
    [] onError = "throws" -> [called |-> TRUE,  st |-> "rejected", rej |-> OnErrorErr]

\* Mutant of Caught: the error handler is called and the error is thrown
\* again when it returns.
CaughtRethrows(onError, err) ==
  CASE onError = "none"   -> [called |-> FALSE, st |-> "rejected", rej |-> err]
    [] onError = "ok"     -> [called |-> TRUE,  st |-> "rejected", rej |-> err]
    [] onError = "throws" -> [called |-> TRUE,  st |-> "rejected", rej |-> OnErrorErr]

\* compose.ts:47-53  the catch of dispatch: the error handler's outcome.
Caught(onError, err) ==
  CASE onError = "none"   -> [called |-> FALSE, st |-> "rejected", rej |-> err]
    [] onError = "ok"     -> [called |-> TRUE,  st |-> "resolved", rej |-> NoErr]
    [] onError = "throws" -> [called |-> TRUE,  st |-> "rejected", rej |-> OnErrorErr]

\* compose.ts:45-53, ufiber.ts:110-112  the handler throws synchronously:
\* the catch around its call runs at once.
Throw(r, f) ==
  /\ Running(r, f)
  /\ Op(r, f) = "throw"
  /\ LET e == HandlerErr(frames[r][f].idx)
         c == Caught(cfg[r].onError, e)
     IN  /\ frames' = [frames EXCEPT ![r][f].st = c.st, ![r][f].err = e,
                                     ![r][f].rej = c.rej]
         /\ log' = IF c.called
                   THEN [log EXCEPT ![r] = Append(@, Event("onError", frames[r][f].idx, f, r, e))]
                   ELSE log
  /\ stack' = Pop(stack)
  /\ UNCHANGED <<cfg, match, routeIndex, top>>
  /\ UNCHANGED <<ctxVars, routerVars>>

\* The handler throws after an await: the promise it returned rejects.
Reject(r, f) ==
  /\ Running(r, f)
  /\ Op(r, f) = "fail"
  /\ frames' = [frames EXCEPT ![r][f].st = "hfail",
                              ![r][f].err = HandlerErr(frames[r][f].idx)]
  /\ stack' = Pop(stack)
  /\ UNCHANGED <<cfg, match, log, routeIndex, top>>
  /\ UNCHANGED <<ctxVars, routerVars>>

\* The handler's own asynchronous work completes and the handler resumes.
Wake(r, f) ==
  /\ stack = <<>>
  /\ f \in DOMAIN frames[r]
  /\ frames[r][f].st = "sleep"
  /\ frames' = [frames EXCEPT ![r][f].st = "run"]
  /\ stack' = <<<<r, f>>>>
  /\ UNCHANGED <<cfg, match, log, routeIndex, top>>
  /\ UNCHANGED <<ctxVars, routerVars>>

\* Mutant of Resume: the awaiting handler resumes before the promise of its
\* continuation has settled.
ResumeEarly(r, f) ==
  /\ stack = <<>>
  /\ f \in DOMAIN frames[r]
  /\ frames[r][f].st = "wait"
  /\ frames' = [frames EXCEPT ![r][f].st = "run", ![r][f].pc = @ + 1]
  /\ stack' = <<<<r, f>>>>
  /\ UNCHANGED <<cfg, match, log, routeIndex, top>>
  /\ UNCHANGED <<ctxVars, routerVars>>

\* The promise of next() settles: the awaiting handler resumes, or the
\* rejection is thrown at its await (the handler has no try/catch).
Resume(r, f) ==
  /\ stack = <<>>
  /\ f \in DOMAIN frames[r]
  /\ frames[r][f].st = "wait"
  /\ LET ch == frames[r][frames[r][f].child]
     IN  /\ Settled(ch)
         /\ IF ch.st = "resolved"
            THEN /\ frames' = [frames EXCEPT ![r][f].st = "run", ![r][f].pc = @ + 1]
                 /\ stack' = <<<<r, f>>>>
            ELSE /\ frames' = [frames EXCEPT ![r][f].st = "hfail", ![r][f].err = ch.rej]
                 /\ stack' = stack
  /\ UNCHANGED <<cfg, match, log, routeIndex, top>>
  /\ UNCHANGED <<ctxVars, routerVars>>

\* compose.ts:41-53, ufiber.ts:108-109  the await of a frame gets its value:
\* the frame's promise resolves, or the error is caught and handed to the
\* error handler.
Settle(r, f) ==
  /\ stack = <<>>
  /\ f \in DOMAIN frames[r]
  /\ frames[r][f].st \in {"hdone", "hfail"}
  /\ LET fr == frames[r][f]
         c  == Caught(cfg[r].onError, fr.err)
     IN  IF fr.st = "hdone"
         THEN /\ frames' = [frames EXCEPT ![r][f].st = "resolved"]
              /\ log' = log
         ELSE /\ frames' = [frames EXCEPT ![r][f].st = c.st, ![r][f].rej = c.rej]
              /\ log' = IF c.called
                        THEN [log EXCEPT ![r] = Append(@, Event("onError", fr.idx, f, r, fr.err))]
                        ELSE log
  /\ UNCHANGED <<cfg, match, stack, routeIndex, top>>
  /\ UNCHANGED <<ctxVars, routerVars>>

(* ------------------------------- Fiber --------------------------------- *)

\* ufiber.ts:94  HEAD requests are matched as GET
\* Mutant of NormalizeMethod: every request is looked up under its own
\* method.
OwnMethod(m) == m

NormalizeMethod(m) == IF m = "HEAD" THEN "GET" ELSE m

\* The route table as the dispatcher meets it: per method, the chain that
\* the request's path matches, or no match.
RouterMatch(tbl, m) == tbl[m]

\* Mutant of FiberRoute: the null check of the match result is missing.
FiberRouteNoNullCheck(mr) ==
  IF Len(mr.chain) = 1 THEN "direct" ELSE "composed"

\* ufiber.ts:100-116  no match, one handler (called without compose), or a
\* chain handed to compose
FiberRoute(mr) ==
  CASE ~mr.found -> "nomatch"
    [] mr.found /\ Len(mr.chain) = 1 -> "direct"
    [] mr.found /\ Len(mr.chain) # 1 -> "composed"

\* ufiber.ts:82-122  Fiber.#dispatch
FiberDispatch(r) ==
  /\ top[r] = "idle"
  /\ cfg[r].entry = "fiber"
  /\ stack = <<>>
  /\ LET mr == RouterMatch(cfg[r].table, NormalizeMethod(cfg[r].method))
     IN  /\ match' = [match EXCEPT ![r] = mr]
         /\ CASE FiberRoute(mr) = "nomatch" ->
                   /\ log' = [log EXCEPT ![r] = Append(@, Event("notFound", 0, 0, r, NoErr))]
                   /\ top' = [top EXCEPT ![r] = "nomatch"]
                   /\ UNCHANGED <<frames, stack, routeIndex>>
              [] FiberRoute(mr) = "direct" ->
                   /\ frames' = [frames EXCEPT ![r] =
                        <<Frame(0, "direct", mr.chain[1], 0, TRUE, "run", NoErr)>>]
                   /\ log' = [log EXCEPT ![r] = Append(@, Event("enter", 0, 1, r, NoErr))]
                   /\ stack' = <<<<r, 1>>>>
                   /\ top' = [top EXCEPT ![r] = "direct"]
                   /\ UNCHANGED routeIndex
              [] FiberRoute(mr) = "composed" ->
                   LET d == Dispatch(r, mr.chain, 0, 0, TRUE)
                   IN  /\ frames' = [frames EXCEPT ![r] = <<d.fr>>]
                       /\ log' = [log EXCEPT ![r] = @ \o d.evs]
                       /\ stack' = IF d.push THEN <<<<r, 1>>>> ELSE <<>>
                       /\ routeIndex' = [routeIndex EXCEPT ![r] = d.ri]
                       /\ top' = [top EXCEPT ![r] = "composed"]
  /\ UNCHANGED cfg
  /\ UNCHANGED <<ctxVars, routerVars>>

\* ufiber.ts:121  result.catch(err => this[kErrorHandler](err, ctx))
FiberCatch(r) ==
  /\ top[r] = "composed"
  /\ cfg[r].entry = "fiber"
  /\ stack = <<>>
  /\ frames[r][1].st = "rejected"
  /\ log' = [log EXCEPT ![r] = Append(@, Event("onError", 0, 0, r, frames[r][1].rej))]
  /\ top' = [top EXCEPT ![r] = "caught"]
  /\ UNCHANGED <<cfg, match, frames, stack, routeIndex>>
  /\ UNCHANGED <<ctxVars, routerVars>>

\* app.ts:85-115  the earlier Fiber.#dispatch: as ufiber.ts up to the call
\* of the single handler, but the block of the single handler does not
\* return, so the chain is still to be composed when that call comes back.
AppDispatch(r) ==
  /\ top[r] = "idle"
  /\ cfg[r].entry = "app"
  /\ stack = <<>>
  /\ LET mr == RouterMatch(cfg[r].table, NormalizeMethod(cfg[r].method))
     IN  /\ match' = [match EXCEPT ![r] = mr]
         /\ CASE FiberRoute(mr) = "nomatch" ->
                   /\ log' = [log EXCEPT ![r] = Append(@, Event("notFound", 0, 0, r, NoErr))]
                   /\ top' = [top EXCEPT ![r] = "nomatch"]
                   /\ UNCHANGED <<frames, stack, routeIndex>>
              [] FiberRoute(mr) = "direct" ->
                   /\ frames' = [frames EXCEPT ![r] =
                        <<Frame(0, "direct", mr.chain[1], 0, TRUE, "run", NoErr)>>]
                   /\ log' = [log EXCEPT ![r] = Append(@, Event("enter", 0, 1, r, NoErr))]
                   /\ stack' = <<<<r, 1>>>>
                   /\ top' = [top EXCEPT ![r] = "fallthrough"]
                   /\ UNCHANGED routeIndex
              [] FiberRoute(mr) = "composed" ->
                   LET d == Dispatch(r, mr.chain, 0, 0, TRUE)
                   IN  /\ frames' = [frames EXCEPT ![r] = <<d.fr>>]
                       /\ log' = [log EXCEPT ![r] = @ \o d.evs]
                       /\ stack' = IF d.push THEN <<<<r, 1>>>> ELSE <<>>
                       /\ routeIndex' = [routeIndex EXCEPT ![r] = d.ri]
                       /\ top' = [top EXCEPT ![r] = "composed"]
  /\ UNCHANGED cfg
  /\ UNCHANGED <<ctxVars, routerVars>>

\* The call of the single handler has come back and #dispatch goes on.
FallingThrough == \E r \in Reqs : top[r] = "fallthrough"

\* app.ts:116-121  the single handler's call came back (it returned, threw
\* or suspended): compose(matchResult[0], ...) and composed(ctx)
AppCompose(r) ==
  /\ top[r] = "fallthrough"
  /\ stack = <<>>
  /\ Len(frames[r]) < MaxFrames
  /\ LET d   == Dispatch(r, match[r].chain, 0, 0, TRUE)
         fid == Len(frames[r]) + 1
     IN  /\ frames' = [frames EXCEPT ![r] = Append(@, d.fr)]
         /\ log' = [log EXCEPT ![r] = @ \o d.evs]
         /\ stack' = IF d.push THEN <<<<r, fid>>>> ELSE <<>>
         /\ routeIndex' = [routeIndex EXCEPT ![r] = d.ri]
  /\ top' = [top EXCEPT ![r] = "composed"]
  /\ UNCHANGED <<cfg, match>>
  /\ UNCHANGED <<ctxVars, routerVars>>

\* The frame of compose's dispatch(0).
ComposedFrame(r) ==
  CHOOSE f \in DOMAIN frames[r] : frames[r][f].parent = 0 /\ frames[r][f].role # "direct"

\* app.ts:122  result.catch(err => this[kErrorHandler](err, ctx))
AppCatch(r) ==
  /\ top[r] = "composed"
  /\ cfg[r].entry = "app"
  /\ stack = <<>>
  /\ frames[r][ComposedFrame(r)].st = "rejected"
  /\ log' = [log EXCEPT ![r] =
               Append(@, Event("onError", 0, 0, r, frames[r][ComposedFrame(r)].rej))]
  /\ top' = [top EXCEPT ![r] = "caught"]
  /\ UNCHANGED <<cfg, match, frames, stack, routeIndex>>
  /\ UNCHANGED <<ctxVars, routerVars>>

\* compose.ts:21-24  the composed function is called: dispatch(0)
ComposedCall(r) ==
  /\ top[r] = "idle"
  /\ cfg[r].entry = "compose"
  /\ stack = <<>>
  /\ match' = [match EXCEPT ![r] = Found(cfg[r].chain)]
  /\ LET d == Dispatch(r, cfg[r].chain, 0, 0, TRUE)
     IN  /\ frames' = [frames EXCEPT ![r] = <<d.fr>>]
         /\ log' = [log EXCEPT ![r] = @ \o d.evs]
         /\ stack' = IF d.push THEN <<<<r, 1>>>> ELSE <<>>
         /\ routeIndex' = [routeIndex EXCEPT ![r] = d.ri]
  /\ top' = [top EXCEPT ![r] = "composed"]
  /\ UNCHANGED cfg
  /\ UNCHANGED <<ctxVars, routerVars>>

(* -------------------------- mounted handlers --------------------------- *)

\* part_004:194  router[kErrorHandler] === onError: the mounted router
\* still has the error handler it was constructed with.
DefaultOnError == "default"

\* The error a throwing error handler of the mounted router throws.
SubOnErrorErr == "ES"

\* Mutant of RouteWraps: route() hands over every handler as it is.
RouteNeverWraps(subOnError) == FALSE

\* part_004:194-201  route() wraps a handler of the mounted router when that
\* router has an error handler of its own.
RouteWraps(subOnError) == subOnError # DefaultOnError

\* The frames whose handler is such a wrapper.
IsWrapped(r, f) ==
  /\ f \in DOMAIN frames[r]
  /\ frames[r][f].role \in {"handler", "direct"}
  /\ frames[r][f].idx \in cfg[r].mounted
  /\ RouteWraps(cfg[r].subOnError)

\* compose.ts:47-53 under part_004:197  the catch of the wrapper's own
\* compose([], {onError: router[kErrorHandler]}).
SubCaught(subOnError, err) ==
  CASE subOnError = "ok"     -> [called |-> TRUE, st |-> "resolved", rej |-> NoErr]
    [] subOnError = "throws" -> [called |-> TRUE, st |-> "rejected", rej |-> SubOnErrorErr]

\* part_004:196-200, compose.ts:45-53  an error leaves the wrapped handler:
\* the wrapper's compose catches it first, and what the wrapper's promise
\* rejects with reaches the catch of the dispatch that called the wrapper.
WrapperCaught(r, f, e) ==
  LET inner == SubCaught(cfg[r].subOnError, e)
      outer == Caught(cfg[r].onError, inner.rej)
      i     == frames[r][f].idx
  IN  IF inner.st = "resolved"
      THEN [st |-> "resolved", rej |-> NoErr,
            evs |-> <<Event("subError", i, f, r, e)>>]
      ELSE [st |-> outer.st, rej |-> outer.rej,
            evs |-> <<Event("subError", i, f, r, e)>>
                    \o (IF outer.called
                        THEN <<Event("onError", i, f, r, inner.rej)>> ELSE <<>>)]

\* The wrapped handler throws synchronously.
WrappedThrow(r, f) ==
  /\ Running(r, f)
  /\ Op(r, f) = "throw"
  /\ LET e == HandlerErr(frames[r][f].idx)
         c == WrapperCaught(r, f, e)
     IN  /\ frames' = [frames EXCEPT ![r][f].st = c.st, ![r][f].err = e,
                                     ![r][f].rej = c.rej]
         /\ log' = [log EXCEPT ![r] = @ \o c.evs]
  /\ stack' = Pop(stack)
  /\ UNCHANGED <<cfg, match, routeIndex, top>>
  /\ UNCHANGED <<ctxVars, routerVars>>

\* The await of the wrapper's dispatch gets its value: the promise of the
\* wrapped handler resolved, or it rejected and the error is caught.
WrappedSettle(r, f) ==
  /\ stack = <<>>
  /\ f \in DOMAIN frames[r]
  /\ frames[r][f].st \in {"hdone", "hfail"}
  /\ LET fr == frames[r][f]
         c  == WrapperCaught(r, f, fr.err)
     IN  IF fr.st = "hdone"
         THEN /\ frames' = [frames EXCEPT ![r][f].st = "resolved"]
              /\ log' = log
         ELSE /\ frames' = [frames EXCEPT ![r][f].st = c.st, ![r][f].rej = c.rej]
              /\ log' = [log EXCEPT ![r] = @ \o c.evs]
  /\ UNCHANGED <<cfg, match, stack, routeIndex, top>>
  /\ UNCHANGED <<ctxVars, routerVars>>

(* ------------------------------ Context -------------------------------- *)

\* app.ts:197  statusCode?: the status code is undefined until one is set
NoStatus == 0

\* app.ts:361  r.statusCode || 200
DefaultStatus == 200

\* app.ts:322
HeadersSentMsg == "Cannot set headers after they are sent to the client"

\* The response headers a handler touches, in the order they are written.
HeaderOrder == <<"content-type", "location", "x-a">>
HeaderNames == {HeaderOrder[k] : k \in DOMAIN HeaderOrder}

BodyKinds == {"undefined", "string", "buffer"}

\* A call on the underlying (uWebSockets) response.
ResCall(op, a, b) == [op |-> op, a |-> a, b |-> b]

\* app.ts:228-238  the fields of a new Context
NewContext(method) ==
  [method |-> method, aborted |-> FALSE, finished |-> FALSE,
   headerSent |-> FALSE, statusCode |-> NoStatus,
   headers |-> [h \in HeaderNames |-> <<>>], aborts |-> <<>>,
   destroyed |-> FALSE]

\* app.ts:243-244  the default headers the constructor writes
ConstructorWrites ==
  <<ResCall("writeHeader", "x-powered-by", "appName"),
    ResCall("writeHeader", "keep-alive", "timeout=10")>>

\* The context with its response and microtask queue, as one value.
CtxState == [c |-> ctx, res |-> res, micro |-> micro]

\* app.ts:346-355  one writeHeader per stored value
RECURSIVE HeaderWrites(_, _)
HeaderWrites(hs, k) ==
  IF k > Len(HeaderOrder) THEN <<>>
  ELSE [j \in 1..Len(hs[HeaderOrder[k]]) |->
          ResCall("writeHeader", HeaderOrder[k], hs[HeaderOrder[k]][j])]
       \o HeaderWrites(hs, k + 1)

\* app.ts:344-357  writeHeaders
WriteHeaders(s) ==
  [s EXCEPT !.res = @ \o HeaderWrites(s.c.headers, 1), !.c.headerSent = TRUE]

\* app.ts:359-364  writeStatus: the line is built from r.statusCode itself,
\* the status name from r.statusCode || 200
WriteStatus(s) ==
  [s EXCEPT !.res = Append(@, ResCall("writeStatus", s.c.statusCode,
      IF s.c.statusCode = NoStatus THEN DefaultStatus ELSE s.c.statusCode))]

\* Mutant of ContextEnd: the finished/aborted guard is missing.
ContextEndNoGuard(s, body, cb) ==
  LET w == WriteStatus(WriteHeaders(s))
  IN  [w EXCEPT !.res = Append(@, ResCall("end", body, ""))]

\* app.ts:374-406  end(body, cb)
ContextEnd(s, body, cb) ==
  IF s.c.finished \/ s.c.aborted THEN s
  ELSE LET w == WriteStatus(WriteHeaders(s))
       IN  CASE s.c.method = "HEAD" ->
                  [w EXCEPT !.res = Append(@, ResCall("endWithoutBody",
                      IF body = "string" THEN "byteLength" ELSE "0", ""))]
             [] s.c.method # "HEAD" /\ body \in {"undefined", "buffer"} ->
                  [w EXCEPT !.res = Append(@, ResCall("end", body, ""))]
             [] s.c.method # "HEAD" /\ body = "string" ->
                  [w EXCEPT !.micro = Append(@, [cb |-> cb]),
                            !.res = Append(@, ResCall("end", body, ""))]

\* app.ts:420-423  the status argument and the default content type
WithStatusAndType(s, status, type) ==
  LET s1 == IF status # NoStatus THEN [s EXCEPT !.c.statusCode = status] ELSE s
  IN  IF s1.c.headers["content-type"] = <<>>
      THEN [s1 EXCEPT !.c.headers["content-type"] = <<type>>]
      ELSE s1

\* app.ts:418-425  text(body, status)
ContextText(s, status) ==
  ContextEnd(WithStatusAndType(s, status, "text/plain; charset=utf-8"), "string", FALSE)

\* app.ts:437-444  json(body, status)
ContextJson(s, status) ==
  ContextEnd(WithStatusAndType(s, status, "application/json; charset=utf-8"), "string", FALSE)

\* app.ts:456-463  html(body, status)
ContextHtml(s, status) ==
  ContextEnd(WithStatusAndType(s, status, "text/html; charset=utf-8"), "string", FALSE)

\* app.ts:476-481  redirect(url, status = 302)
ContextRedirect(s, status) ==
  ContextEnd([s EXCEPT !.c.statusCode = status, !.c.headers["location"] = <<"/url">>],
             "undefined", FALSE)

\* Mutant of SetHeader: a delete is carried out before the check.
SetHeaderDeleteFirst(s, field, mode) ==
  IF mode = "delete" THEN [raised |-> NoErr, s |-> [s EXCEPT !.c.headers[field] = <<>>]]
  ELSE IF s.c.headerSent THEN [s |-> s, raised |-> HeadersSentMsg]
  ELSE [raised |-> NoErr,
        s |-> CASE mode = "append" -> [s EXCEPT !.c.headers[field] = Append(@, "v")]
                [] mode = "set"    -> [s EXCEPT !.c.headers[field] = <<"v">>]]

\* app.ts:319-342  setHeader(field, value, append): mode is "delete" (value
\* undefined), "append" or "set"; the outcome carries the error it throws
SetHeader(s, field, mode) ==
  IF s.c.headerSent THEN [s |-> s, raised |-> HeadersSentMsg]
  ELSE [raised |-> NoErr,
        s |-> CASE mode = "delete" -> [s EXCEPT !.c.headers[field] = <<>>]
                [] mode = "append" -> [s EXCEPT !.c.headers[field] = Append(@, "v")]
                [] mode = "set"    -> [s EXCEPT !.c.headers[field] = <<"v">>]]

\* A handler's call on the context, recorded with what it did.
CallWith(op, arg, s, raised) ==
  /\ Len(calls) < MaxCalls
  /\ ctx' = s.c
  /\ res' = s.res
  /\ micro' = s.micro
  /\ calls' = Append(calls, [op |-> op, arg |-> arg, aborted |-> ctx.aborted,
                            wrote |-> s.res # res, raised |-> raised])
  /\ UNCHANGED <<ran, notified, reqBody, handled, dispVars, routerVars>>

Call(op, s, raised) == CallWith(op, "", s, raised)

\* The arguments of an end call: the kind of body, and whether a callback
\* was given.
EndArg(body, cb) == IF cb THEN body \o ", cb" ELSE body

CallEnd ==
  \E body \in BodyKinds, cb \in BOOLEAN :
    CallWith("end", EndArg(body, cb), ContextEnd(CtxState, body, cb), NoErr)

CallText == \E st \in {NoStatus, 201} : Call("text", ContextText(CtxState, st), NoErr)

CallJson == Call("json", ContextJson(CtxState, NoStatus), NoErr)

CallHtml == Call("html", ContextHtml(CtxState, NoStatus), NoErr)

CallRedirect == Call("redirect", ContextRedirect(CtxState, 302), NoErr)

CallSetHeader ==
  \E mode \in {"delete", "append", "set"} :
    LET o == SetHeader(CtxState, "x-a", mode)
    IN  CallWith("setHeader", mode, o.s, o.raised)

\* app.ts:305-308  status(code)
CallStatus == Call("status", [CtxState EXCEPT !.c.statusCode = 404], NoErr)

\* app.ts:265-267  onAbort(fn)
CallOnAbort ==
  Call("onAbort", [CtxState EXCEPT !.c.aborts = Append(@, Len(calls) + 1)], NoErr)

\* Mutant of OnAborted: the notification is acted on whatever the state.
OnAbortedUnguarded ==
  /\ micro = <<>>
  /\ notified < MaxNotify
  /\ notified' = notified + 1
  /\ ctx' = [ctx EXCEPT !.aborted = TRUE, !.finished = TRUE, !.destroyed = TRUE,
                        !.aborts = <<>>]
  /\ ran' = ran \o [k \in DOMAIN ctx.aborts |-> <<"abort", ctx.aborts[k]>>]
  /\ UNCHANGED <<res, micro, calls, reqBody, handled, dispVars, routerVars>>

\* app.ts:246-254  the callback given to res.onAborted: the client is gone.
\* It runs as a task of its own, after the microtasks queued before it.
OnAborted ==
  /\ micro = <<>>
  /\ notified < MaxNotify
  /\ notified' = notified + 1
  /\ IF ctx.aborted \/ ctx.finished
     THEN UNCHANGED <<ctx, ran>>
     ELSE /\ ctx' = [ctx EXCEPT !.aborted = TRUE, !.finished = TRUE,
                                !.destroyed = TRUE, !.aborts = <<>>]
          /\ ran' = ran \o [k \in DOMAIN ctx.aborts |-> <<"abort", ctx.aborts[k]>>]
  /\ UNCHANGED <<res, micro, calls, reqBody, handled, dispVars, routerVars>>

\* app.ts:400-403  the microtask end queued: finished = true; cb?.()
RunMicrotask ==
  /\ micro # <<>>
  /\ ctx' = [ctx EXCEPT !.finished = TRUE]
  /\ ran' = IF micro[1].cb THEN Append(ran, <<"end", 0>>) ELSE ran
  /\ micro' = Tail(micro)
  /\ UNCHANGED <<res, calls, notified, reqBody, handled, dispVars, routerVars>>

CtxCore(methods) ==
  /\ ctx \in {NewContext(m) : m \in methods}
  /\ res = ConstructorWrites
  /\ micro = <<>>
  /\ calls = <<>>
  /\ ran = <<>>
  /\ notified = 0
  /\ handled = <<>>

(* --------------------------- errorHandler ------------------------------ *)

Undefined == "undefined"
Null == "null"
InternalServerErrorStatus == 500
NotFoundStatus == 404

\* errors.ts:24-40  getErrorName(status), for the statuses used here
GetErrorName(status) ==
  CASE status = NotFoundStatus -> "NotFoundError"
    [] status = InternalServerErrorStatus -> "InternalServerError"
    [] OTHER -> "HttpError"

\* errors.ts:45-67  new HttpError(status, {message, name, cause}), and a
\* plain Error with its message and stack.
HttpErrorOf(status, message, name, cause) ==
  [http |-> TRUE, status |-> status, message |-> message,
   name |-> IF name = Undefined THEN GetErrorName(status) ELSE name,
   cause |-> cause, stack |-> "HttpError: at handler"]
PlainError(message) ==
  [http |-> FALSE, status |-> 0, message |-> message, name |-> "Error",
   cause |-> Undefined, stack |-> "Error: at handler"]

Errors ==
  {HttpErrorOf(NotFoundStatus, "no such user", Undefined, Undefined),
   HttpErrorOf(InternalServerErrorStatus, "no such user", "Custom", "db down"),
   PlainError("secret detail"), PlainError("")}

\* errors.ts:73-77  getBody()
GetBody(err) ==
  [status |-> err.status, error |-> err.name, message |-> err.message,
   data |-> Null, code |-> Null]

\* JSON.stringify leaves out a property whose value is undefined.
UnknownJson(message, trace) ==
  IF trace = Undefined
  THEN [status |-> InternalServerErrorStatus, error |-> "InternalServerError",
        message |-> message]
  ELSE [status |-> InternalServerErrorStatus, error |-> "InternalServerError",
        message |-> message, stack |-> trace]

\* Mutant of ErrorResponse: the message and the stack are sent whatever
\* isDev says.
ErrorResponseVerbose(err, isDev) ==
  IF err.http
  THEN [status |-> err.status, body |-> GetBody(err),
        logged |-> IF err.cause # Undefined THEN <<err.cause>> ELSE <<>>]
  ELSE [status |-> InternalServerErrorStatus,
        body |-> UnknownJson(IF err.message # "" THEN err.message ELSE "Unexpected error",
                             err.stack),
        logged |-> <<err.message>>]

\* error-handler.ts:10-31  what the handler answers and what it logs
ErrorResponse(err, isDev) ==
  IF err.http
  THEN [status |-> err.status, body |-> GetBody(err),
        logged |-> IF err.cause # Undefined THEN <<err.cause>> ELSE <<>>]
  ELSE [status |-> InternalServerErrorStatus,
        body |-> UnknownJson(IF isDev
                             THEN (IF err.message # "" THEN err.message ELSE "Unexpected error")
                             ELSE "Something went wrong",
                             IF isDev THEN err.stack ELSE Undefined),
        logged |-> <<err.message>>]

\* error-handler.ts:12-31  the handler is given an error:
\* ctx.status(status).json(body)
ErrorHandler ==
  /\ Len(calls) < MaxCalls
  /\ \E err \in Errors, isDev \in BOOLEAN :
       LET r == ErrorResponse(err, isDev)
           s == ContextJson([CtxState EXCEPT !.c.statusCode = r.status], NoStatus)
       IN  /\ ctx' = s.c
           /\ res' = s.res
           /\ micro' = s.micro
           /\ calls' = Append(calls, [op |-> "errorHandler", arg |-> "",
                                     aborted |-> ctx.aborted,
                                     wrote |-> s.res # res, raised |-> NoErr])
           /\ handled' = Append(handled, [err |-> err, isDev |-> isDev,
                                         status |-> r.status, body |-> r.body,
                                         logged |-> r.logged])
  /\ UNCHANGED <<ran, notified, reqBody, dispVars, routerVars>>

(* --------------------------- request body ------------------------------ *)

\* The limit on the request body, in bytes, and the sizes of the chunks
\* the client sends.
MaxBytes == 2
ChunkSizes == {1, 2}

NotReadableMsg == "Cannot read body for HTTP method"
AbortedReadMsg == "request was aborted by the client"
CancelledMsg == "Request cancelled during body read"
RangeErrorMsg == "RangeError: Request body exceeds limit"

BodyMethods == {"GET", "POST", "DELETE"}
ReadKinds == {"bodyRaw", "textParse", "parseJson"}
NoBuffer == -1

\* request.ts:537-539  whether the request may carry a body
IsRead(method, methods) == method \in {"POST", "PUT", "PATCH"} \/ method \in methods

\* request.ts:505-552, 1006-1043  the request as constructed: the stream
\* exists only for a method that may carry a body.
NewRequest(method, methods) ==
  [method |-> method, methods |-> methods, isRead |-> IsRead(method, methods),
   aborted |-> FALSE, cache |-> {}, hasStream |-> IsRead(method, methods),
   destroyed |-> FALSE, err |-> NoErr, chunks |-> <<>>, totalSize |-> 0,
   done |-> FALSE, completed |-> FALSE, buffer |-> NoBuffer,
   reads |-> <<>>, delivered |-> 0, chunk |-> 0, ended |-> FALSE]

RECURSIVE SumSeq(_)
SumSeq(q) == IF q = <<>> THEN 0 ELSE Head(q) + SumSeq(Tail(q))

\* Mutant of SafeReadBody: the aborted flag is not consulted.
SafeReadBodyNoAbort(isRead, aborted) ==
  IF ~isRead THEN NotReadableMsg ELSE NoErr

\* tools.ts:15-29  safeReadBody: the error it throws, if any
SafeReadBody(isRead, aborted) ==
  IF ~isRead THEN NotReadableMsg
  ELSE IF aborted THEN AbortedReadMsg
  ELSE NoErr

\* What a body read caches when it returns.
CacheOf(kind) ==
  CASE kind = "bodyRaw" -> {}
    [] kind = "textParse" -> {"text"}
    [] kind = "parseJson" -> {"text", "json"}

ReadOf(kind, st, val, e) == [kind |-> kind, st |-> st, val |-> val, err |-> e]

\* The 'complete' event reaches the listeners: every pending read returns
\* the body and caches what it parsed.
EmitComplete(b, buf) ==
  LET pend == {k \in DOMAIN b.reads : b.reads[k].st = "pending"}
  IN  [b EXCEPT !.reads = [k \in DOMAIN b.reads |->
                             IF k \in pend THEN ReadOf(b.reads[k].kind, "resolved", buf, NoErr)
                             ELSE b.reads[k]],
                !.cache = @ \cup UNION {CacheOf(b.reads[k].kind) : k \in pend}]

\* The 'error' event reaches the listeners: every pending read rejects.
EmitError(b, e) ==
  [b EXCEPT !.reads = [k \in DOMAIN b.reads |->
                         IF b.reads[k].st = "pending"
                         THEN ReadOf(b.reads[k].kind, "rejected", NoBuffer, e)
                         ELSE b.reads[k]]]

\* request.ts:1071-1079  destroy(err): a no-op on a destroyed stream, else
\* _destroy drops what is buffered and the error is emitted.
Destroy(b, e) ==
  IF b.destroyed THEN b
  ELSE EmitError([b EXCEPT !.destroyed = TRUE, !.err = e, !.chunks = <<>>,
                           !.done = TRUE, !.buffer = NoBuffer], e)

\* request.ts:1081-1093, 1108-1114  #complete: the chunks are joined into
\* the cached buffer and 'complete' is emitted with it.
Complete(b) ==
  IF b.completed THEN b
  ELSE LET buf == IF b.buffer # NoBuffer THEN b.buffer ELSE SumSeq(b.chunks)
       IN  EmitComplete([b EXCEPT !.completed = TRUE, !.buffer = buf, !.chunks = <<>>], buf)

\* Mutant of OnDataStep: the total is not compared with the limit.
OnDataUnlimited(b, size, isLast) ==
  IF b.destroyed THEN b
  ELSE LET b1 == [b EXCEPT !.chunks = Append(@, size), !.totalSize = @ + size]
       IN  IF isLast THEN Complete([b1 EXCEPT !.done = TRUE]) ELSE b1

\* request.ts:1018-1042  the res.onData callback
OnDataStep(b, size, isLast) ==
  IF b.destroyed THEN b
  ELSE LET b1 == [b EXCEPT !.chunks = Append(@, size), !.totalSize = @ + size]
       IN  IF b1.totalSize > MaxBytes THEN Destroy(b1, RangeErrorMsg)
           ELSE IF isLast THEN Complete([b1 EXCEPT !.done = TRUE])
           ELSE b1

\* The client sends a chunk of the body.
OnData ==
  /\ reqBody.hasStream /\ ~reqBody.ended /\ ~reqBody.aborted
  /\ reqBody.delivered < MaxChunks
  /\ \E size \in ChunkSizes, isLast \in BOOLEAN :
       reqBody' = [OnDataStep(reqBody, size, isLast) EXCEPT
                  !.delivered = @ + 1, !.chunk = size, !.ended = isLast]
  /\ UNCHANGED <<ctx, res, micro, calls, ran, notified, handled, dispVars, routerVars>>

\* request.ts:1095-1106  once('complete', listener) on the stream, and
\* once('error', reject): the read returns at once when the body is
\* complete, completes it when the last chunk has come, and waits otherwise.
Listen(b, kind) ==
  LET idx == Len(b.reads) + 1
      wait == [b EXCEPT !.reads = Append(@, ReadOf(kind, "pending", NoBuffer, NoErr))]
  IN  IF b.completed /\ b.buffer # NoBuffer
      THEN EmitComplete(wait, b.buffer)
      ELSE IF b.done /\ ~b.completed
      THEN Complete(wait)
      ELSE wait

\* request.ts:728-753, 813-826  bodyRaw, textParse, parseJson: the guard,
\* then the cache, then the stream.
ReadBody(b, kind) ==
  LET e == SafeReadBody(b.isRead, b.aborted)
  IN  IF e # NoErr
      THEN [b EXCEPT !.reads = Append(@, ReadOf(kind, "rejected", NoBuffer, e))]
      ELSE IF kind = "textParse" /\ "text" \in b.cache
      THEN [b EXCEPT !.reads = Append(@, ReadOf(kind, "resolved", b.buffer, NoErr))]
      ELSE IF kind = "parseJson" /\ "json" \in b.cache
      THEN [b EXCEPT !.reads = Append(@, ReadOf(kind, "resolved", b.buffer, NoErr))]
      ELSE Listen(b, kind)

\* A handler reads the body.
BodyRead ==
  /\ Len(reqBody.reads) < MaxReads
  /\ \E kind \in ReadKinds : reqBody' = ReadBody(reqBody, kind)
  /\ UNCHANGED <<ctx, res, micro, calls, ran, notified, handled, dispVars, routerVars>>

\* request.ts:529-551  the client is gone: the flags are set, the parsed
\* bodies are dropped and the stream is destroyed.
BodyAborted ==
  /\ ~reqBody.aborted
  /\ reqBody' = LET b1 == [reqBody EXCEPT !.aborted = TRUE]
             IN  IF reqBody.hasStream
                 THEN Destroy([b1 EXCEPT !.cache = {}], CancelledMsg)
                 ELSE b1
  /\ UNCHANGED <<ctx, res, micro, calls, ran, notified, handled, dispVars, routerVars>>

CtxInit(methods) == CtxCore(methods) /\ reqBody = NewRequest("GET", {})

(* ---------------------------- request text ------------------------------ *)

\* Longest request body read as text, in characters, and most text reads of
\* one request.
MaxText == 2
MaxTextReads == 3

\* A body is a sequence of characters; " " stands for white space.
Chars == {" ", "a"}
Texts == SeqsUpTo(Chars, MaxText)

\* String.prototype.trim: white space is removed from both ends.
RECURSIVE TrimStart(_)
TrimStart(t) == IF t # <<>> /\ Head(t) = " " THEN TrimStart(Tail(t)) ELSE t

RECURSIVE TrimEnd(_)
TrimEnd(t) ==
  IF t # <<>> /\ t[Len(t)] = " " THEN TrimEnd(SubSeq(t, 1, Len(t) - 1)) ELSE t

Trim(t) == TrimEnd(TrimStart(t))

\* The cached text is <<>> while body.text is undefined, <<t>> once set.
\* if (body.text): undefined and the empty string are both falsy.
HasText(cache) == cache # <<>> /\ cache[1] # <<>>

\* The readers of the body as text: UwsRequest.text and UwsCtx.textParse
\* (request.ts), Request.textParse (part_002).
TextReaders == {"UwsRequest.text", "UwsCtx.textParse", "Request.textParse"}

\* request.ts:266-273, 746-753  text() and textParse(): the cache is given
\* text.trim(), the caller text
UwsTextParse(content, cache) ==
  IF HasText(cache) THEN [cache |-> cache, ret |-> cache[1]]
  ELSE [cache |-> <<Trim(content)>>, ret |-> content]

\* part_002:296-303  textParse(): the text is trimmed, cached and returned
RequestTextParse(content, cache) ==
  IF HasText(cache) THEN [cache |-> cache, ret |-> cache[1]]
  ELSE LET text == Trim(content)
       IN  [cache |-> <<text>>, ret |-> text]

TextParse(reader, content, cache) ==
  IF reader = "Request.textParse" THEN RequestTextParse(content, cache)
  ELSE UwsTextParse(content, cache)

\* A request whose body has arrived in full, and its reads as text.
NewTextRequest(reader, content) ==
  [reader |-> reader, content |-> content, aborted |-> FALSE, text |-> <<>>,
   returned |-> <<>>]

\* A handler reads the body as text: the read fails on an aborted request
\* (tools.ts:15-29, part_002:280-285), else the reader returns.
TextRead ==
  /\ Len(reqBody.returned) < MaxTextReads
  /\ reqBody' =
       IF reqBody.aborted
       THEN [reqBody EXCEPT !.returned = Append(@, [st |-> "rejected", val |-> <<>>])]
       ELSE LET o == TextParse(reqBody.reader, reqBody.content, reqBody.text)
            IN  [reqBody EXCEPT !.text = o.cache,
                                !.returned = Append(@, [st |-> "resolved", val |-> o.ret])]
  /\ UNCHANGED <<ctx, res, micro, calls, ran, notified, handled, dispVars, routerVars>>

\* request.ts:546-551, part_002:119-122  the client is gone: the parsed
\* bodies are dropped.
TextAborted ==
  /\ ~reqBody.aborted
  /\ reqBody' = [reqBody EXCEPT !.aborted = TRUE, !.text = <<>>]
  /\ UNCHANGED <<ctx, res, micro, calls, ran, notified, handled, dispVars, routerVars>>


(* ------------------------------- Router -------------------------------- *)

\* consts.ts:23-24
MESSAGE_MATCHER_IS_ALREADY_BUILT ==
  "Can not add a route since the matcher is already built."

RouteMethods == {"GET", "POST", "ALL"}

\* Raw pattern tokens, as written between the slashes: "users", ":id",
\* ":id?" and "*".
Lit(t) == [sigil |-> "", name |-> t, opt |-> FALSE]
Par(n) == [sigil |-> ":", name |-> n, opt |-> FALSE]
OptPar(n) == [sigil |-> ":", name |-> n, opt |-> TRUE]
Star == [sigil |-> "*", name |-> "", opt |-> FALSE]

PatternError == "PatternError"
AmbiguousRouteError == "AmbiguousRouteError"

\* The kind of one token: literal, named parameter, optional named
\* parameter, trailing wildcard.
SegmentOf(tok) ==
  [kind |-> IF tok.sigil = "*" THEN "wild"
            ELSE IF tok.sigil = ":" THEN (IF tok.opt THEN "opt" ELSE "param")
            ELSE "lit",
   text |-> IF tok.sigil = "*" THEN "*" ELSE tok.name]

\* compile(pattern): fails when a parameter name is empty or repeated
\* within the pattern, or a wildcard is not the final segment.
Compile(pattern) ==
  LET segs == [k \in DOMAIN pattern |-> SegmentOf(pattern[k])]
      named == {k \in DOMAIN segs : segs[k].kind \in {"param", "opt"}}
      bad == \/ \E k \in named : segs[k].text = ""
             \/ \E j, k \in named : j # k /\ segs[j].text = segs[k].text
             \/ \E k \in DOMAIN segs : segs[k].kind = "wild" /\ k # Len(segs)
  IN  IF bad THEN [err |-> PatternError, segs |-> <<>>]
      ELSE [err |-> NoErr, segs |-> segs]

\* The parameter key list of a compiled pattern.
ParamKeys(segs) ==
  LET dyn(s) == s.kind # "lit"
      sel == SelectSeq(segs, dyn)
  IN  [k \in DOMAIN sel |-> sel[k].text]

NoResult == [found |-> FALSE, handlers |-> <<>>, params |-> {}]
Hit(hs, binds) == [found |-> TRUE, handlers |-> hs, params |-> binds]

(* The structural matcher: a trie whose nodes are named by the edges that
   lead to them.  An edge is <<kind, text>>; a node holds the routes that
   end at it, in registration order. *)
EmptyTrie == [k \in {<<>>} |-> <<>>]

Children(T, key, kind) ==
  {k \in DOMAIN T : /\ Len(k) = Len(key) + 1
                    /\ SubSeq(k, 1, Len(key)) = key
                    /\ k[Len(k)][1] = kind}

AddNode(T, key) ==
  IF key \in DOMAIN T THEN T
  ELSE [k \in DOMAIN T \cup {key} |-> IF k = key THEN <<>> ELSE T[k]]

\* A parameter edge of another name already leaves this node.
ParamConflict(T, key, name) ==
  \E k \in Children(T, key, "param") : k[Len(k)][2] # name

RECURSIVE InsertFreely(_, _, _, _, _)
\* Mutant of InsertAt: a parameter edge is created whatever edges exist.
InsertFreely(T, key, segs, i, rt) ==
  IF i > Len(segs)
  THEN [err |-> NoErr, trie |-> [T EXCEPT ![key] = Append(@, rt)]]
  ELSE LET s == segs[i]
           down(U, e) == InsertFreely(AddNode(U, Append(key, e)), Append(key, e), segs, i + 1, rt)
       IN  CASE s.kind = "lit" -> down(T, <<"lit", s.text>>)
             [] s.kind = "wild" -> down(T, <<"wild", "*">>)
             [] s.kind = "param" -> down(T, <<"param", s.text>>)
             [] s.kind = "opt" ->
                  LET skip == InsertFreely(T, key, segs, i + 1, rt)
                  IN  down(skip.trie, <<"param", s.text>>)

RECURSIVE InsertAt(_, _, _, _, _)
\* insert(segments, handler): descends segment by segment.  A literal
\* creates or reuses its edge; a parameter or a wildcard creates the one
\* dynamic edge of its kind, and a parameter of another name at the same
\* node is ambiguous; an optional segment registers the route at the node
\* that skips it and at the node that consumes it.
InsertAt(T, key, segs, i, rt) ==
  IF i > Len(segs)
  THEN [err |-> NoErr, trie |-> [T EXCEPT ![key] = Append(@, rt)]]
  ELSE LET s == segs[i]
           down(U, e) == InsertAt(AddNode(U, Append(key, e)), Append(key, e), segs, i + 1, rt)
           ambiguous == [err |-> AmbiguousRouteError, trie |-> T]
       IN  CASE s.kind = "lit" -> down(T, <<"lit", s.text>>)
             [] s.kind = "wild" -> down(T, <<"wild", "*">>)
             [] s.kind = "param" ->
                  IF ParamConflict(T, key, s.text) THEN ambiguous
                  ELSE down(T, <<"param", s.text>>)
             [] s.kind = "opt" ->
                  LET skip == InsertAt(T, key, segs, i + 1, rt)
                  IN  IF skip.err # NoErr THEN ambiguous
                      ELSE IF ParamConflict(skip.trie, key, s.text) THEN ambiguous
                      ELSE down(skip.trie, <<"param", s.text>>)

TrieInsert(T, segs, h) ==
  InsertAt(T, <<>>, segs, 1, [handler |-> h, keys |-> ParamKeys(segs)])

HandlersAt(T, key) == [k \in DOMAIN T[key] |-> T[key][k].handler]

RECURSIVE WalkGreedy(_, _, _, _, _)
\* Mutant of Walk: the first edge that exists is taken and never given up.
WalkGreedy(T, key, path, i, binds) ==
  IF i > Len(path)
  THEN IF T[key] # <<>> THEN Hit(HandlersAt(T, key), binds) ELSE NoResult
  ELSE LET lit == Append(key, <<"lit", path[i]>>)
           pars == Children(T, key, "param")
           wild == Append(key, <<"wild", "*">>)
       IN  IF lit \in DOMAIN T THEN WalkGreedy(T, lit, path, i + 1, binds)
           ELSE IF pars # {}
           THEN LET p == CHOOSE k \in pars : TRUE
                IN  WalkGreedy(T, p, path, i + 1, binds \cup {<<p[Len(p)][2], <<path[i]>>>>})
           ELSE IF wild \in DOMAIN T
           THEN Hit(HandlersAt(T, wild), binds \cup {<<"*", SubSeq(path, i, Len(path))>>})
           ELSE NoResult

RECURSIVE Walk(_, _, _, _, _)
\* match(path): at each node the literal edge is tried first, then the
\* parameter edge, then the wildcard edge; a dead end falls back to the
\* next edge of the node above.  The first leaf that holds routes wins.
Walk(T, key, path, i, binds) ==
  IF i > Len(path)
  THEN IF T[key] # <<>> THEN Hit(HandlersAt(T, key), binds) ELSE NoResult
  ELSE LET lit == Append(key, <<"lit", path[i]>>)
           pars == Children(T, key, "param")
           wild == Append(key, <<"wild", "*">>)
           viaLit == IF lit \in DOMAIN T
                     THEN Walk(T, lit, path, i + 1, binds) ELSE NoResult
           viaPar == IF pars # {}
                     THEN LET p == CHOOSE k \in pars : TRUE
                          IN  Walk(T, p, path, i + 1,
                                   binds \cup {<<p[Len(p)][2], <<path[i]>>>>})
                     ELSE NoResult
           viaWild == IF wild \in DOMAIN T
                      THEN Hit(HandlersAt(T, wild),
                               binds \cup {<<"*", SubSeq(path, i, Len(path))>>})
                      ELSE NoResult
       IN  IF viaLit.found THEN viaLit
           ELSE IF viaPar.found THEN viaPar
           ELSE viaWild

TrieMatch(T, path) == Walk(T, <<>>, path, 1, {})

(* The fast-path matcher: batches of fragments, one fragment per route,
   each batch holding at most FastCeiling capture groups. *)
FastCeiling == 1

Representable(segs) == \A k \in DOMAIN segs : segs[k].kind # "opt"
Groups(segs) == Len(ParamKeys(segs))

RECURSIVE SumGroups(_)
SumGroups(batch) ==
  IF batch = <<>> THEN 0 ELSE Groups(Head(batch).segs) + SumGroups(Tail(batch))

\* insert: the fragment joins the current batch, or opens a new batch when
\* it would take the batch over the ceiling; a pattern with an optional
\* segment is not stored.
FastInsert(batches, segs, h) ==
  LET frag == [segs |-> segs, handler |-> h]
      n == Len(batches)
  IN  IF ~Representable(segs) THEN batches
      ELSE IF n = 0 \/ SumGroups(batches[n]) + Groups(segs) > FastCeiling
      THEN Append(batches, <<frag>>)
      ELSE [batches EXCEPT ![n] = Append(@, frag)]

\* A fragment matches the whole path: each literal is equal, each
\* parameter takes one segment, the wildcard takes the non-empty rest.
SegsMatch(segs, path) ==
  LET n == Len(segs)
      wild == n > 0 /\ segs[n].kind = "wild"
  IN  /\ IF wild THEN Len(path) >= n ELSE Len(path) = n
      /\ \A k \in DOMAIN segs : segs[k].kind = "lit" => path[k] = segs[k].text

\* The capture groups of a fragment that matched.
Captures(segs, path) ==
  {<<segs[k].text, IF segs[k].kind = "wild" THEN SubSeq(path, k, Len(path))
                   ELSE <<path[k]>>>> : k \in {j \in DOMAIN segs : segs[j].kind # "lit"}}

\* match(path): the batches are tried in registration order; in the first
\* batch that matches, the fragment that fired is the leftmost alternative.
FastMatch(batches, path) ==
  LET fires(b) == {k \in DOMAIN batches[b] : SegsMatch(batches[b][k].segs, path)}
      hits == {b \in DOMAIN batches : fires(b) # {}}
  IN  IF hits = {} THEN NoResult
      ELSE LET b == CHOOSE x \in hits : \A y \in hits : x <= y
               k == CHOOSE x \in fires(b) : \A y \in fires(b) : x <= y
               f == batches[b][k]
           IN  Hit(<<f.handler>>, Captures(f.segs, path))

(* The strategy selector: a table per method, each route inserted into
   both matchers. *)
\* The routes of one method's table, in registration order.
MethodTable(tbl, m) ==
  LET mine(rt) == rt.method \in {m, "ALL"}
  IN  SelectSeq(tbl, mine)

RECURSIVE TrieOf(_)
TrieOf(rts) ==
  IF rts = <<>> THEN EmptyTrie
  ELSE LET n == Len(rts)
       IN  TrieInsert(TrieOf(SubSeq(rts, 1, n - 1)), rts[n].segs, rts[n].handler).trie

RECURSIVE FastOf(_)
FastOf(rts) ==
  IF rts = <<>> THEN <<>>
  ELSE LET n == Len(rts)
       IN  FastInsert(FastOf(SubSeq(rts, 1, n - 1)), rts[n].segs, rts[n].handler)

\* Every route of the method's table is stored in the fast-path matcher.
FullyFast(rts) == \A k \in DOMAIN rts : Representable(rts[k].segs)

\* match on a frozen table: the fast-path matcher alone when the method's
\* table is fully representable, else the fast-path matcher first and the
\* structural matcher when it finds nothing.
SelectorMatch(tbl, m, path) ==
  LET rts == MethodTable(tbl, m)
      fast == FastMatch(FastOf(rts), path)
  IN  IF FullyFast(rts) \/ fast.found THEN fast
      ELSE TrieMatch(TrieOf(rts), path)

\* The methods whose table a registration under m goes into.
TablesOf(m) == IF m = "ALL" THEN Methods ELSE {m}

Patterns == {<<Lit("a")>>, <<Par("id")>>, <<Star>>}
Paths == {<<"a">>, <<"b">>}

\* match(method, path): the handler chain; the empty sequence is no match.
MatcherMatch(tbl, m, path) == SelectorMatch(tbl, m, path).handlers

\* What every (method, path) matches.
MatchAll(tbl) == [m \in Methods, path \in Paths |-> MatcherMatch(tbl, m, path)]

\* add(method, pattern, handler) of the matcher: refused once Frozen; the
\* pattern is compiled and inserted while Building, and a failure leaves
\* the table as it was.
MatcherAdd(ph, tbl, m, pat, h) ==
  LET c == Compile(pat)
      rt == [method |-> m, pattern |-> pat, segs |-> c.segs, handler |-> h]
      clash == \E t \in TablesOf(m) :
                 TrieInsert(TrieOf(MethodTable(tbl, t)), c.segs, h).err # NoErr
  IN  IF ph = "Frozen"
      THEN [err |-> MESSAGE_MATCHER_IS_ALREADY_BUILT, table |-> tbl]
      ELSE IF c.err # NoErr THEN [err |-> c.err, table |-> tbl]
      ELSE IF clash THEN [err |-> AmbiguousRouteError, table |-> tbl]
      ELSE [err |-> NoErr, table |-> Append(tbl, rt)]

\* The record of an operation: what it was, what it raised, its result (the
\* arguments, for an add) and the table as it was when the operation began.
Done(n, op, err, result) ==
  [n |-> n, op |-> op, err |-> err, result |-> result,
   frozen |-> phase = "Frozen", before |-> MatchAll(table),
   routesBefore |-> routes]

\* Mutant of AddRoute: the route is stored whatever the matcher's state.
AddRouteIgnoresFreeze(m, pat) ==
  /\ last.n < MaxOps
  /\ LET h == last.n + 1
     IN  /\ table' = Append(table, [method |-> m, pattern |-> pat,
                                     segs |-> Compile(pat).segs, handler |-> h])
         /\ routes' = Append(routes, [method |-> m, path |-> pat, handler |-> h])
         /\ last' = Done(h, "add", NoErr, <<m, pat>>)
  /\ UNCHANGED <<phase, sub, dispVars, ctxVars>>

\* Mutant of AddRoute: the route is pushed on routes before the matcher is
\* asked.
AddRoutePushesFirst(m, pat) ==
  /\ last.n < MaxOps
  /\ LET h == last.n + 1
         a == MatcherAdd(phase, table, m, pat, h)
     IN  /\ table' = a.table
         /\ routes' = Append(routes, [method |-> m, path |-> pat, handler |-> h])
         /\ last' = Done(h, "add", a.err, <<m, pat>>)
  /\ UNCHANGED <<phase, sub, dispVars, ctxVars>>

\* part_004:211-222  Router.#addRoute: router.add throws before routes.push
AddRoute(m, pat) ==
  /\ last.n < MaxOps
  /\ LET h == last.n + 1
         a == MatcherAdd(phase, table, m, pat, h)
     IN  /\ table' = a.table
         /\ routes' = IF a.err = NoErr
                      THEN Append(routes, [method |-> m, path |-> pat, handler |-> h])
                      ELSE routes
         /\ last' = Done(h, "add", a.err, <<m, pat>>)
  /\ UNCHANGED <<phase, sub, dispVars, ctxVars>>

\* build(): freezes the table; a no-op on a frozen table.
Build ==
  /\ last.n < MaxOps
  /\ phase' = "Frozen"
  /\ last' = Done(last.n + 1, "build", NoErr, <<>>)
  /\ UNCHANGED <<table, routes, sub, dispVars, ctxVars>>

\* ufiber.ts:93-96  a request is matched: the first match freezes the table.
MatchRequest(m, path) ==
  /\ last.n < MaxOps
  /\ phase' = "Frozen"
  /\ last' = Done(last.n + 1, "match", NoErr,
                  MatcherMatch(table, NormalizeMethod(m), path))
  /\ UNCHANGED <<table, routes, sub, dispVars, ctxVars>>

\* part_004:36-44  a Router as constructed: no routes, matcher building
NewRouter == [phase |-> "Building", table |-> <<>>, routes |-> <<>>]

\* utils/url mergePath(base, path): the segments of base followed by those
\* of path; "/" is the path of no segments.
MergePath(base, path) == base \o path
BasePath == <<>>
SelfMountMsg == "Cannot mount router onto itself"

\* Router.#addRoute on the second router.
SubAddRoute(m, pat) ==
  /\ last.n < MaxOps
  /\ LET h == last.n + 1
         a == MatcherAdd(sub.phase, sub.table, m, pat, h)
         r == [method |-> m, path |-> MergePath(BasePath, pat), handler |-> h]
     IN  /\ sub' = [sub EXCEPT !.table = a.table,
                               !.routes = IF a.err = NoErr THEN Append(@, r) ELSE @]
         /\ last' = Done(h, "subadd", a.err, <<m, pat>>)
  /\ UNCHANGED <<phase, table, routes, dispVars, ctxVars>>

\* Router.#addRoute applied to the routes rs[i..] in turn: the first add
\* the matcher refuses throws, and the routes after it are not reached.
RECURSIVE AddEach(_, _, _, _, _)
AddEach(ph, tbl, own, rs, i) ==
  IF i > Len(rs) THEN [err |-> NoErr, table |-> tbl, routes |-> own]
  ELSE LET a == MatcherAdd(ph, tbl, rs[i].method, rs[i].path, rs[i].handler)
           r == [method |-> rs[i].method, path |-> MergePath(BasePath, rs[i].path),
                 handler |-> rs[i].handler]
       IN  IF a.err # NoErr THEN [err |-> a.err, table |-> tbl, routes |-> own]
           ELSE AddEach(ph, a.table, Append(own, r), rs, i + 1)

\* Mutant of Mounted: the routes are registered under their own paths.
MountedUnprefixed(prefix, rs) == rs

\* part_004:191-204  the routes of the mounted router as they are handed to
\* #addRoute: the same method, the path under the base, and the handler
\* (itself, or wrapped to run under the mounted router's error handler).
Mounted(prefix, rs) ==
  LET base == MergePath(BasePath, prefix)
  IN  [k \in DOMAIN rs |->
        [method |-> rs[k].method, path |-> MergePath(base, rs[k].path),
         handler |-> rs[k].handler]]

\* part_004:189-206  Router.route(path, router)
Route(prefix) ==
  /\ last.n < MaxOps
  /\ LET a == AddEach(phase, table, routes, Mounted(prefix, sub.routes), 1)
     IN  /\ table' = a.table
         /\ routes' = a.routes
         /\ last' = Done(last.n + 1, "route", a.err, prefix)
  /\ UNCHANGED <<phase, sub, dispVars, ctxVars>>

\* part_004:190  a router is not mounted onto itself.
RouteSelf(prefix) ==
  /\ last.n < MaxOps
  /\ last' = Done(last.n + 1, "routeSelf", SelfMountMsg, prefix)
  /\ UNCHANGED <<phase, table, routes, sub, dispVars, ctxVars>>

RouterInit ==
  /\ sub = NewRouter
  /\ phase = "Building"
  /\ table = <<>>
  /\ routes = <<>>
  /\ last = [n |-> 0, op |-> "new", err |-> NoErr, result |-> <<>>,
             frozen |-> FALSE, before |-> MatchAll(<<>>), routesBefore |-> <<>>]

(* --------------------------- specification ----------------------------- *)

Table(mr) == [m \in Methods |-> IF m = "GET" THEN mr ELSE NoMatch]

\* A composed function called on its own: any chain, with or without an
\* error handler, a not-found handler and an outer next.
ComposeCfgs ==
  {c \in [entry : {"compose"}, method : {"GET"}, chain : Chains,
          table : {Table(NoMatch)}, onError : {"none", "ok"},
          hasNotFound : BOOLEAN, next : {NoNext} \cup NextKinds] :
     /\ c.next = "throw" => ~c.hasNotFound
     /\ c.next = "pass" => c.hasNotFound}

\* Chains met by the requests whose method is not GET.
FewChains == {<<"pass">>, <<"pass", "end">>}

\* A request through Fiber: the router always supplies both handlers.
FiberCfgs ==
  {c \in [entry : {"fiber"}, method : Methods, chain : {<<>>},
          table : {Table(Found(ch)) : ch \in Chains \ {<<>>}} \cup {Table(NoMatch)},
          onError : {"ok", "throws"}, hasNotFound : {TRUE}, next : {NoNext}] :
     c.method # "GET" =>
       (c.table = Table(NoMatch) \/ \E ch \in FewChains : c.table = Table(Found(ch)))}

Cfgs == ComposeCfgs \cup FiberCfgs

InitFor(ids) ==
  /\ cfg \in [ids -> Cfgs]
  /\ match = [r \in ids |-> NoMatch]
  /\ frames = [r \in ids |-> <<>>]
  /\ stack = <<>>
  /\ log = [r \in ids |-> <<>>]
  /\ routeIndex = [r \in ids |-> 0]
  /\ top = [r \in ids |-> "idle"]

\* One request, dispatched through compose or through Fiber.
Init == InitFor({1}) /\ CtxInit({"GET"}) /\ RouterInit

FrameIds == 1..MaxFrames

Next ==
  \/ \E r \in Reqs : ComposedCall(r)
  \/ \E r \in Reqs : FiberDispatch(r)
  \/ \E r \in Reqs : FiberCatch(r)
  \/ \E r \in Reqs, f \in FrameIds : Work(r, f)
  \/ \E r \in Reqs, f \in FrameIds : Sleep(r, f)
  \/ \E r \in Reqs, f \in FrameIds : AwaitNext(r, f)
  \/ \E r \in Reqs, f \in FrameIds : CallNext(r, f)
  \/ \E r \in Reqs, f \in FrameIds : Return(r, f)
  \/ \E r \in Reqs, f \in FrameIds : Throw(r, f)
  \/ \E r \in Reqs, f \in FrameIds : Reject(r, f)
  \/ \E r \in Reqs, f \in FrameIds : Wake(r, f)
  \/ \E r \in Reqs, f \in FrameIds : Resume(r, f)
  \/ \E r \in Reqs, f \in FrameIds : Settle(r, f)

Spec == Init /\ [][Next]_vars

\* Two requests in flight at once over one route table: handlers that await
\* their own work and next, that end the chain, and that reject.
ConcKinds == {"slow", "end", "reject"}
ConcChains == SeqsUpTo(ConcKinds, MaxConcChain) \ {<<>>}

ConcTable(a, b) ==
  [m \in Methods |->
     CASE m = "GET" -> Found(a) [] m = "POST" -> Found(b) [] m = "HEAD" -> NoMatch]

ConcCfg(m, tbl, onError) ==
  [entry |-> "fiber", method |-> m, chain |-> <<>>, table |-> tbl,
   onError |-> onError, hasNotFound |-> TRUE, next |-> NoNext]

InitConc ==
  /\ \E a, b \in ConcChains, m \in {"GET", "POST"}, e \in {"ok", "throws"} :
       cfg = <<ConcCfg("GET", ConcTable(a, b), e), ConcCfg(m, ConcTable(a, b), e)>>
  /\ match = [r \in {1, 2} |-> NoMatch]
  /\ frames = [r \in {1, 2} |-> <<>>]
  /\ stack = <<>>
  /\ log = [r \in {1, 2} |-> <<>>]
  /\ routeIndex = [r \in {1, 2} |-> 0]
  /\ top = [r \in {1, 2} |-> "idle"]
  /\ CtxInit({"GET"})
  /\ RouterInit

NextConc ==
  \/ \E r \in Reqs : FiberDispatch(r)
  \/ \E r \in Reqs : FiberCatch(r)
  \/ \E r \in Reqs, f \in FrameIds : Work(r, f)
  \/ \E r \in Reqs, f \in FrameIds : Sleep(r, f)
  \/ \E r \in Reqs, f \in FrameIds : AwaitNext(r, f)
  \/ \E r \in Reqs, f \in FrameIds : Return(r, f)
  \/ \E r \in Reqs, f \in FrameIds : Reject(r, f)
  \/ \E r \in Reqs, f \in FrameIds : Wake(r, f)
  \/ \E r \in Reqs, f \in FrameIds : Resume(r, f)
  \/ \E r \in Reqs, f \in FrameIds : Settle(r, f)

SpecConc == InitConc /\ [][NextConc]_vars

\* One context and the calls a handler makes on it, with the client free to
\* go away at any moment.
InitCtx == InitFor({}) /\ CtxInit({"GET", "HEAD"}) /\ RouterInit

NextCtx ==
  \/ CallEnd
  \/ CallText
  \/ CallJson
  \/ CallHtml
  \/ CallRedirect
  \/ CallSetHeader
  \/ CallStatus
  \/ CallOnAbort
  \/ OnAborted
  \/ RunMicrotask

SpecCtx == InitCtx /\ [][NextCtx]_vars

\* One route table: registrations, build and requests in any order.
InitRouter == InitFor({}) /\ CtxInit({"GET"}) /\ RouterInit

NextRouter ==
  \/ \E m \in RouteMethods, pat \in Patterns : AddRoute(m, pat)
  \/ Build
  \/ \E m \in Methods, path \in Paths : MatchRequest(m, path)

SpecRouter == InitRouter /\ [][NextRouter]_vars

\* One route table with multi-segment patterns: the two matchers at work.
UsersNew == <<Lit("users"), Lit("new")>>
UsersId == <<Lit("users"), Par("id")>>
UsersName == <<Lit("users"), Par("name")>>
MatcherPatterns ==
  {UsersNew, UsersId, UsersName,
   <<Lit("users"), Star>>, <<Par("a"), Lit("42")>>,
   <<Lit("users"), OptPar("id")>>, <<Star>>, <<Star, Lit("new")>>}
MatcherRoutes ==
  {<<"GET", pat>> : pat \in MatcherPatterns}
    \cup {<<"POST", UsersName>>, <<"POST", UsersNew>>}
MatcherPaths == {<<"users", "new">>, <<"users", "42">>, <<"users">>}

InitMatcher == InitFor({}) /\ CtxInit({"GET"}) /\ RouterInit

NextMatcher ==
  \/ \E rt \in MatcherRoutes : AddRoute(rt[1], rt[2])
  \/ Build
  \/ \E path \in MatcherPaths : MatchRequest("GET", path)

SpecMatcher == InitMatcher /\ [][NextMatcher]_vars

\* Two routers: routes are registered on both and the second is mounted
\* on the first under a prefix.
SubPatterns == {<<Lit("a")>>, <<Par("id")>>, <<>>}
Prefixes == {<<Lit("api")>>, <<>>}
OwnPatterns == {<<Lit("api"), Par("name")>>}
MountMethods == {"GET", "POST"}

NextMount ==
  \/ \E m \in MountMethods, pat \in SubPatterns : SubAddRoute(m, pat)
  \/ \E prefix \in Prefixes : Route(prefix)
  \/ \E prefix \in Prefixes : RouteSelf(prefix)
  \/ \E pat \in OwnPatterns : AddRoute("GET", pat)
  \/ \E path \in Paths : MatchRequest("GET", path)

SpecMount == InitMatcher /\ [][NextMount]_vars

\* One request with a body: chunks arrive, handlers read, the client may
\* go away.
InitBody ==
  /\ InitFor({}) /\ CtxCore({"GET"}) /\ RouterInit
  /\ reqBody \in {NewRequest(m, ms) : m \in BodyMethods, ms \in {{}, {"DELETE"}}}

NextBody ==
  \/ OnData
  \/ BodyRead
  \/ BodyAborted

SpecBody == InitBody /\ [][NextBody]_vars

\* One context and the errorHandler middleware: errors are handed to it
\* before and after the response was ended or the client went away.
NextErr ==
  \/ ErrorHandler
  \/ CallEnd
  \/ OnAborted
  \/ RunMicrotask

SpecErr == InitCtx /\ [][NextErr]_vars

\* One request whose body is read as text, several times over.
InitText ==
  /\ InitFor({}) /\ CtxCore({"GET"}) /\ RouterInit
  /\ reqBody \in {NewTextRequest(rd, t) : rd \in TextReaders, t \in Texts}

NextText ==
  \/ TextRead
  \/ TextAborted

SpecText == InitText /\ [][NextText]_vars

\* One request through Fiber.#dispatch, of ufiber.ts or of app.ts, over a
\* table whose GET route holds one handler, two handlers or none.
SingleChains == {<<k>> : k \in Kinds} \cup {<<"pass", "throw">>}

SingleCfgs ==
  [entry : {"fiber", "app"}, method : {"GET"}, chain : {<<>>},
   table : {Table(Found(ch)) : ch \in SingleChains} \cup {Table(NoMatch)},
   onError : {"ok", "throws"}, hasNotFound : {TRUE}, next : {NoNext}]

InitSingle ==
  /\ cfg \in [{1} -> SingleCfgs]
  /\ match = [r \in {1} |-> NoMatch]
  /\ frames = [r \in {1} |-> <<>>]
  /\ stack = <<>>
  /\ log = [r \in {1} |-> <<>>]
  /\ routeIndex = [r \in {1} |-> 0]
  /\ top = [r \in {1} |-> "idle"]
  /\ CtxInit({"GET"})
  /\ RouterInit

\* What the event loop runs next waits for #dispatch to come back.
NextSingle ==
  \/ \E r \in Reqs : FiberDispatch(r)
  \/ \E r \in Reqs : FiberCatch(r)
  \/ \E r \in Reqs : AppDispatch(r)
  \/ \E r \in Reqs : AppCompose(r)
  \/ \E r \in Reqs : AppCatch(r)
  \/ \E r \in Reqs, f \in FrameIds : Work(r, f)
  \/ \E r \in Reqs, f \in FrameIds : Sleep(r, f)
  \/ \E r \in Reqs, f \in FrameIds : AwaitNext(r, f)
  \/ \E r \in Reqs, f \in FrameIds : CallNext(r, f)
  \/ \E r \in Reqs, f \in FrameIds : Return(r, f)
  \/ \E r \in Reqs, f \in FrameIds : Throw(r, f)
  \/ \E r \in Reqs, f \in FrameIds : Reject(r, f)
  \/ \E r \in Reqs, f \in FrameIds : ~FallingThrough /\ Wake(r, f)
  \/ \E r \in Reqs, f \in FrameIds : ~FallingThrough /\ Resume(r, f)
  \/ \E r \in Reqs, f \in FrameIds : ~FallingThrough /\ Settle(r, f)

SpecSingle == InitSingle /\ [][NextSingle]_vars

\* One context whose handler calls end, with the microtasks it queues run
\* to completion: the event loop does not leave a queued microtask waiting.
NextEnd ==
  \/ CallEnd
  \/ CallStatus
  \/ OnAborted
  \/ RunMicrotask

SpecEnd == InitCtx /\ [][NextEnd]_vars /\ WF_vars(RunMicrotask)

\* One request through Fiber over a table whose route holds handlers of the
\* router itself and handlers that route() took over from a mounted router.
MaxSubChain == 2
SubKinds == {"end", "pass", "slow", "throw", "reject"}
SubChains == SeqsUpTo(SubKinds, MaxSubChain) \ {<<>>}

SubCfgs ==
  [entry : {"fiber"}, method : {"GET"}, chain : {<<>>},
   table : {Table(Found(ch)) : ch \in SubChains},
   onError : {"ok", "throws"}, hasNotFound : {TRUE}, next : {NoNext},
   mounted : SUBSET (0..(MaxSubChain - 1)),
   subOnError : {DefaultOnError, "ok", "throws"}]

InitSub ==
  /\ cfg \in [{1} -> SubCfgs]
  /\ match = [r \in {1} |-> NoMatch]
  /\ frames = [r \in {1} |-> <<>>]
  /\ stack = <<>>
  /\ log = [r \in {1} |-> <<>>]
  /\ routeIndex = [r \in {1} |-> 0]
  /\ top = [r \in {1} |-> "idle"]
  /\ CtxInit({"GET"})
  /\ RouterInit

NextSub ==
  \/ \E r \in Reqs : FiberDispatch(r)
  \/ \E r \in Reqs : FiberCatch(r)
  \/ \E r \in Reqs, f \in FrameIds : Work(r, f)
  \/ \E r \in Reqs, f \in FrameIds : Sleep(r, f)
  \/ \E r \in Reqs, f \in FrameIds : AwaitNext(r, f)
  \/ \E r \in Reqs, f \in FrameIds : Return(r, f)
  \/ \E r \in Reqs, f \in FrameIds : Reject(r, f)
  \/ \E r \in Reqs, f \in FrameIds : Wake(r, f)
  \/ \E r \in Reqs, f \in FrameIds : Resume(r, f)
  \/ \E r \in Reqs, f \in FrameIds : ~IsWrapped(r, f) /\ Throw(r, f)
  \/ \E r \in Reqs, f \in FrameIds : ~IsWrapped(r, f) /\ Settle(r, f)
  \/ \E r \in Reqs, f \in FrameIds : IsWrapped(r, f) /\ WrappedThrow(r, f)
  \/ \E r \in Reqs, f \in FrameIds : IsWrapped(r, f) /\ WrappedSettle(r, f)

SpecSub == InitSub /\ [][NextSub]_vars

\* One context on which handlers register abort callbacks and end the
\* response while the client may go away; queued microtasks are run.
NextAbort ==
  \/ CallOnAbort
  \/ CallEnd
  \/ OnAborted
  \/ RunMicrotask

SpecAbort == InitCtx /\ [][NextAbort]_vars /\ WF_vars(RunMicrotask)

\* One call of a composed function whose handlers await every
\* continuation they invoke.  A handler that calls next twice stands last
\* in its chain, which keeps the frames of the call within MaxFrames.
TermKinds == {"end", "pass", "slow", "throw", "reject"}
TermChains ==
  {ch \in SeqsUpTo(TermKinds \cup {"twice"}, MaxChain) :
     \A k \in DOMAIN ch : ch[k] = "twice" => k = Len(ch)}

TermCfgs ==
  {c \in [entry : {"compose"}, method : {"GET"}, chain : TermChains,
          table : {Table(NoMatch)}, onError : {"none", "ok", "throws"},
          hasNotFound : BOOLEAN, next : {NoNext} \cup NextKinds] :
     /\ c.next = "throw" => ~c.hasNotFound
     /\ c.next = "pass" => c.hasNotFound}

InitTerm ==
  /\ cfg \in [{1} -> TermCfgs]
  /\ match = [r \in {1} |-> NoMatch]
  /\ frames = [r \in {1} |-> <<>>]
  /\ stack = <<>>
  /\ log = [r \in {1} |-> <<>>]
  /\ routeIndex = [r \in {1} |-> 0]
  /\ top = [r \in {1} |-> "idle"]
  /\ CtxInit({"GET"})
  /\ RouterInit

\* What the run-time does once the composed function was called: the
\* running handler takes its next step, a handler's own asynchronous work
\* completes, a settled promise resumes whoever awaits it.
RunTime ==
  \/ \E r \in Reqs, f \in FrameIds : Work(r, f)
  \/ \E r \in Reqs, f \in FrameIds : Sleep(r, f)
  \/ \E r \in Reqs, f \in FrameIds : AwaitNext(r, f)
  \/ \E r \in Reqs, f \in FrameIds : Return(r, f)
  \/ \E r \in Reqs, f \in FrameIds : Throw(r, f)
  \/ \E r \in Reqs, f \in FrameIds : Reject(r, f)
  \/ \E r \in Reqs, f \in FrameIds : Wake(r, f)
  \/ \E r \in Reqs, f \in FrameIds : Resume(r, f)
  \/ \E r \in Reqs, f \in FrameIds : Settle(r, f)

NextTerm ==
  \/ \E r \in Reqs : ComposedCall(r)
  \/ RunTime

SpecTerm == InitTerm /\ [][NextTerm]_vars /\ WF_vars(RunTime)

(* ------------------------------ claims --------------------------------- *)

Fr(r) == frames[r]
FIds(r) == DOMAIN frames[r]
Called(fr) == fr.role \in {"handler", "next", "direct"}
HandlerDone(fr) == fr.st \in {"hdone", "hfail", "resolved", "rejected"}
AllSettled(r) == top[r] # "idle" /\ stack = <<>> /\ \A f \in FIds(r) : Settled(Fr(r)[f])
Events(r, ev) == {k \in DOMAIN log[r] : log[r][k].ev = ev}

\* No handler of the request has called its continuation more than once.
Linear(r) == \A f \in FIds(r) : Fr(r)[f].nexts <= 1

\* C1: a handler that has not invoked its continuation has started no
\* dispatch below it; with every handler above it calling next at most once,
\* no handler of a greater index has been invoked and the not-found handler
\* has not been invoked.
C1_ShortCircuit ==
  \A r \in Reqs : \A f \in FIds(r) :
    (Called(Fr(r)[f]) /\ Fr(r)[f].nexts = 0) =>
      /\ \A g \in FIds(r) : Fr(r)[g].parent # f
      /\ Linear(r) =>
           /\ \A k \in Events(r, "enter") : log[r][k].i <= Fr(r)[f].idx
           /\ Events(r, "notFound") = {}

\* A three-handler chain whose first handler returned without calling next.
C1_Witness ==
  \E r \in Reqs :
    /\ Len(match[r].chain) = 3
    /\ AllSettled(r)
    /\ Fr(r)[1].kind = "end" /\ Fr(r)[1].st = "resolved" /\ Fr(r)[1].nexts = 0
    /\ Cardinality(Events(r, "enter")) = 1

\* C2 (as claimed): the second call of a frame's continuation fails with
\* 'next() called multiple times', and the error handler receives that error.
C2_DoubleNextSurfaces ==
  \A r \in Reqs : \A f \in FIds(r) :
    Fr(r)[f].nexts >= 2 =>
      /\ \A g \in FIds(r) :
           (Fr(r)[g].parent = f /\ \E h \in 1..(g - 1) : Fr(r)[h].parent = f)
             => (Fr(r)[g].st = "rejected" /\ Fr(r)[g].rej = DoubleNextMsg)
      /\ (AllSettled(r) /\ cfg[r].onError # "none")
           => \E k \in Events(r, "onError") : log[r][k].err = DoubleNextMsg

\* A frame caught an error: its handler threw, or the continuation its
\* handler awaited rejected.
Failed(fr) == fr.err # NoErr

\* Every frame from f up to the first one was awaited by its caller.
RECURSIVE AwaitedUp(_, _)
AwaitedUp(r, f) ==
  \/ Fr(r)[f].parent = 0
  \/ Fr(r)[f].awaited /\ AwaitedUp(r, Fr(r)[f].parent)

OnErrorAt(r, f, e) ==
  \E k \in Events(r, "onError") :
    log[r][k].f = f /\ log[r][k].err = e /\ log[r][k].ctx = r

\* C3 (as claimed): an error caught at a frame goes to the configured error
\* handler with the context; with no error handler it is rethrown to the
\* caller of the top-level composed function.
C3_RethrownToTop ==
  \A r \in Reqs : \A f \in FIds(r) :
    (Failed(Fr(r)[f]) /\ Settled(Fr(r)[f])) =>
      /\ cfg[r].onError # "none" => OnErrorAt(r, f, Fr(r)[f].err)
      /\ (cfg[r].onError = "none" /\ AllSettled(r)) =>
           (Fr(r)[1].st = "rejected" /\ Fr(r)[1].rej = Fr(r)[f].err)

\* C3 (amended): an error caught at a frame goes to the configured error
\* handler with the context, exactly once for that frame; with no error
\* handler the frame's own promise rejects with it, and it reaches the
\* top-level caller when every frame above was awaited by its caller.
C3_ErrorInterception ==
  \A r \in Reqs : \A f \in FIds(r) :
    /\ (Failed(Fr(r)[f]) /\ Settled(Fr(r)[f])) =>
         /\ cfg[r].onError # "none" =>
              /\ OnErrorAt(r, f, Fr(r)[f].err)
              /\ Cardinality({k \in Events(r, "onError") : log[r][k].f = f}) = 1
         /\ cfg[r].onError = "none" =>
              /\ Fr(r)[f].st = "rejected" /\ Fr(r)[f].rej = Fr(r)[f].err
              /\ \A k \in Events(r, "onError") : log[r][k].f # f
              /\ (AwaitedUp(r, f) /\ AllSettled(r)) =>
                   (Fr(r)[1].st = "rejected" /\ Fr(r)[1].rej = Fr(r)[f].err)
    /\ (~Failed(Fr(r)[f])) => \A k \in Events(r, "onError") : log[r][k].f # f

\* Both cases happened: a rejection caught by the error handler, and a
\* synchronous throw rethrown to the top with no error handler.
C3_Witness ==
  \E r \in Reqs :
    /\ cfg[r].entry = "compose" /\ cfg[r].onError = "none"
    /\ Len(match[r].chain) = 2
    /\ AllSettled(r)
    /\ Len(Fr(r)) = 2
    /\ Fr(r)[2].kind \in {"throw", "reject"} /\ Fr(r)[2].err = HandlerErr(1)
    /\ Fr(r)[1].st = "rejected" /\ Fr(r)[1].rej = HandlerErr(1)

C3_WitnessHandled ==
  \E r \in Reqs :
    /\ cfg[r].onError = "ok"
    /\ AllSettled(r)
    /\ \E f \in FIds(r) : Fr(r)[f].kind = "reject" /\ OnErrorAt(r, f, HandlerErr(Fr(r)[f].idx))

\* The not-found invocations of frame f.
NotFoundAt(r, f) ==
  {k \in Events(r, "notFound") : log[r][k].f = f /\ log[r][k].ctx = r}

\* C4: a dispatch past the end of the chain (index = chain length, no outer
\* next) invokes the not-found handler exactly once with the request's
\* context and invokes no route handler; when no handler called next twice
\* that is the only not-found invocation of the request.
C4_PastTheEnd ==
  \A r \in Reqs : \A f \in FIds(r) :
    (/\ Fr(r)[f].idx = Len(match[r].chain)
     /\ cfg[r].next = NoNext
     /\ cfg[r].hasNotFound) =>
      /\ Fr(r)[f].role = "none"
      /\ Cardinality(NotFoundAt(r, f)) = 1
      /\ \A k \in Events(r, "enter") : log[r][k].f # f /\ log[r][k].i < Fr(r)[f].idx
      /\ Linear(r) => Cardinality(Events(r, "notFound")) = 1

\* Three handlers that all await next, and the dispatch past the last one.
C4_Witness ==
  \E r \in Reqs :
    /\ cfg[r].next = NoNext /\ cfg[r].hasNotFound
    /\ match[r].chain = <<"pass", "pass", "pass">>
    /\ AllSettled(r)
    /\ Len(Fr(r)) = 4 /\ Fr(r)[4].idx = 3
    /\ Cardinality(NotFoundAt(r, 4)) = 1

\* C5: a request whose (method, path) has no match has exactly one
\* invocation, the not-found handler with its context, and nothing of it
\* ran as a route handler or reached the error handler.
C5_NoMatchNotFound ==
  \A r \in Reqs :
    (cfg[r].entry = "fiber" /\ top[r] # "idle" /\ ~match[r].found) =>
      /\ log[r] = <<Event("notFound", 0, 0, r, NoErr)>>
      /\ frames[r] = <<>>
      /\ top[r] = "nomatch"

\* A POST against a table that has a route for GET only.
C5_Witness ==
  \E r \in Reqs :
    /\ cfg[r].entry = "fiber" /\ cfg[r].method = "POST"
    /\ cfg[r].table["GET"].found
    /\ top[r] = "nomatch"
    /\ Len(log[r]) = 1

\* Every handler of the chain awaits its continuation.
Onion(r) ==
  /\ top[r] # "idle"
  /\ cfg[r].next = NoNext
  /\ match[r].found
  /\ \A k \in DOMAIN match[r].chain : match[r].chain[k] \in {"pass", "slow"}

IsStep(e) == e.ev \in {"pre", "post"}

\* The pre and post steps of an n-handler onion, in order.
OnionOrder(n) ==
  [k \in 1..(2 * n) |->
     IF k <= n THEN <<"pre", k - 1>> ELSE <<"post", 2 * n - k>>]

StepsOf(r) ==
  LET st == SelectSeq(log[r], IsStep)
  IN  [k \in DOMAIN st |-> <<st[k].ev, st[k].i>>]

\* C6: when every handler awaits next, the steps before next run in chain
\* order and the steps after next in reverse order, and a handler is past
\* its await only when every frame dispatched below it has settled.
C6_Onion ==
  \A r \in Reqs :
    Onion(r) =>
      LET n  == Len(match[r].chain)
          st == StepsOf(r)
      IN  /\ Len(st) <= 2 * n
          /\ st = SubSeq(OnionOrder(n), 1, Len(st))
          /\ AllSettled(r) => Len(st) = 2 * n
          /\ \A f \in FIds(r) :
               (Fr(r)[f].nexts = 1 /\ Fr(r)[f].st # "wait") =>
                 \A g \in FIds(r) : g > f => Settled(Fr(r)[g])

\* A three-handler onion, one of them asynchronous, ran to completion.
C6_Witness ==
  \E r \in Reqs :
    /\ Onion(r) /\ AllSettled(r)
    /\ match[r].chain = <<"pass", "slow", "pass">>
    /\ StepsOf(r) = OnionOrder(3)

\* C7 (as claimed): whatever the handlers do, the handler of a frame is
\* not running while the handler its continuation started has not completed.
C7_OneFrameAtATime ==
  \A r \in Reqs : \A f, g \in FIds(r) :
    (Fr(r)[g].parent = f /\ ~HandlerDone(Fr(r)[g])) => ~Running(r, f)

\* C7 (amended): while the promise of a continuation that the handler
\* awaited has not settled, that handler is suspended at its await.
C7_AwaitedFrameWaits ==
  \A r \in Reqs : \A f, g \in FIds(r) :
    (Fr(r)[g].parent = f /\ Fr(r)[g].awaited /\ ~Settled(Fr(r)[g])) =>
      /\ Fr(r)[f].st = "wait" /\ Fr(r)[f].child = g
      /\ ~Running(r, f)

\* An awaited downstream handler is suspended in its own asynchronous work.
C7_Witness ==
  \E r \in Reqs :
    /\ Len(Fr(r)) = 2
    /\ Fr(r)[1].kind = "pass" /\ Fr(r)[1].st = "wait"
    /\ Fr(r)[2].kind = "slow" /\ Fr(r)[2].st = "sleep" /\ Fr(r)[2].awaited

\* The handler kinds that await next exactly once.
AwaitsNext(kind) == kind \in {"pass", "slow"}

\* The chain indices whose handlers run, in order: up to the first handler
\* that does not call next.
EnterOrder(ch) ==
  LET stops == {k \in DOMAIN ch : ~AwaitsNext(ch[k])}
      stop  == IF stops = {} THEN Len(ch)
               ELSE CHOOSE k \in stops : \A j \in stops : k <= j
  IN  [k \in 1..stop |-> k - 1]

IsEnter(e) == e.ev = "enter"

EnteredOf(r) ==
  LET en == SelectSeq(log[r], IsEnter)
  IN  [k \in DOMAIN en |-> en[k].i]

\* The chain the route table holds for the request's own method.
OwnChain(r) == RouterMatch(cfg[r].table, NormalizeMethod(cfg[r].method)).chain

\* C8: with two requests interleaving, every invocation of a request gets
\* that request's context, the handlers that run for it are those of its own
\* chain, in order and up to its own first handler that does not call next,
\* its route index is that of its own last handler, and the errors handed
\* to the error handler with its context are those of its own handlers.
C8_Isolation ==
  \A r \in Reqs :
    top[r] # "idle" =>
      /\ \A k \in DOMAIN log[r] : log[r][k].ctx = r
      /\ match[r].chain = OwnChain(r)
      /\ \A f \in FIds(r) :
           Called(Fr(r)[f]) => Fr(r)[f].kind = OwnChain(r)[Fr(r)[f].idx + 1]
      /\ LET en == EnteredOf(r)
         IN  /\ Len(en) <= Len(EnterOrder(OwnChain(r)))
             /\ en = SubSeq(EnterOrder(OwnChain(r)), 1, Len(en))
             /\ AllSettled(r) => en = EnterOrder(OwnChain(r))
             /\ routeIndex[r] = IF Len(OwnChain(r)) = 1 THEN 0 ELSE en[Len(en)]
      /\ \A k \in Events(r, "onError") :
           \/ log[r][k].err = OnErrorErr
           \/ \E i \in DOMAIN OwnChain(r) :
                OwnChain(r)[i] = "reject" /\ log[r][k].err = HandlerErr(i - 1)
                  /\ log[r][k].i = i - 1

\* Both requests are in the middle of their chains at once: the first is
\* suspended in its second handler, the second in its first, and the first
\* request's chain goes on to fail while the second's does not.
C8_Witness ==
  /\ Reqs = {1, 2}
  /\ OwnChain(1) = <<"slow", "reject">> /\ OwnChain(2) = <<"slow", "end">>
  /\ Len(Fr(1)) = 2 /\ Fr(1)[2].st = "sleep"
  /\ Len(Fr(2)) = 1 /\ Fr(2)[1].st = "sleep"

ResponseOps == {"end", "text", "json", "html", "redirect"}

C10_Freeze ==
  /\ last.frozen => phase = "Frozen"
  /\ last.op \in {"build", "match"} => phase = "Frozen"
  /\ (last.op = "add" /\ ~last.frozen) => (phase = "Building" /\ last.err = NoErr)
  /\ (last.op = "add" /\ last.frozen) =>
       /\ last.err = MESSAGE_MATCHER_IS_ALREADY_BUILT
       /\ MatchAll(table) = last.before
       /\ routes = last.routesBefore
  /\ (last.op = "build" /\ last.frozen) =>
       /\ last.err = NoErr
       /\ MatchAll(table) = last.before
       /\ routes = last.routesBefore

\* A route was added, a request matched it, and a later add was refused.
C10_Witness ==
  /\ last.op = "add" /\ last.frozen
  /\ last.err = MESSAGE_MATCHER_IS_ALREADY_BUILT
  /\ Len(table) = 1
  /\ \E m \in Methods, path \in Paths : MatchAll(table)[m, path] # <<>>


\* The paths the matchers are probed with.
Words == {"users", "new", "42"}
ProbePaths ==
  {<<a>> : a \in Words} \cup {<<a, b>> : a, b \in Words}
    \cup {<<"users", "42", "new">>}
TableMethods == {"GET", "POST"}
TheTrie(m) == TrieOf(MethodTable(table, m))

\* Every way of reading a pattern with its optional segments left out or
\* taken as parameters.
RECURSIVE Variants(_)
Variants(segs) ==
  IF segs = <<>> THEN {<<>>}
  ELSE LET h == Head(segs)
           rest == Variants(Tail(segs))
       IN  IF h.kind = "opt"
           THEN rest \cup {<<[kind |-> "param", text |-> h.text]>> \o r : r \in rest}
           ELSE {<<h>> \o r : r \in rest}

KindRank(kind) == CASE kind = "lit" -> 0 [] kind = "param" -> 1 [] kind = "wild" -> 2

\* u is preferred to v: at the first position where their kinds differ, u
\* has the literal rather than the parameter or the wildcard, or the
\* parameter rather than the wildcard.
Preferred(u, v) ==
  \E i \in DOMAIN u \cap DOMAIN v :
    /\ \A j \in 1..(i - 1) : u[j].kind = v[j].kind
    /\ KindRank(u[i].kind) < KindRank(v[i].kind)

\* The routes among rts that match path and to which no other matching
\* route is preferred, with the bindings of their pattern.
BestMatch(rts, path) ==
  LET cands == {c \in UNION {{<<k, v>> : v \in Variants(rts[k].segs)} : k \in DOMAIN rts} :
                  SegsMatch(c[2], path)}
      best == {c \in cands : \A d \in cands : ~Preferred(d[2], c[2])}
      won(rt) == \E c \in best : rts[c[1]].handler = rt.handler
      sel == SelectSeq(rts, won)
  IN  IF cands = {} THEN NoResult
      ELSE Hit([k \in DOMAIN sel |-> sel[k].handler],
               Captures((CHOOSE c \in best : TRUE)[2], path))

\* C11: the structural matcher returns, for every path, the matching routes
\* to which no other matching route is preferred, with the literal edge
\* preferred to the parameter edge and the parameter edge to the wildcard
\* edge at each position and a dead end undone; with /users/new and
\* /users/:id registered in either order, /users/new is answered by the
\* literal route with no parameters and /users/42 by the parameter route
\* with id bound to 42.
C11_MatchPriority ==
  \A m \in TableMethods :
    LET rts == MethodTable(table, m)
    IN  /\ \A path \in ProbePaths : TrieMatch(TheTrie(m), path) = BestMatch(rts, path)
        /\ \A j, k \in DOMAIN rts :
              (rts[j].pattern = UsersNew /\ rts[k].pattern = UsersId) =>
                LET new == TrieMatch(TheTrie(m), <<"users", "new">>)
                    num == TrieMatch(TheTrie(m), <<"users", "42">>)
                    has(r, h) == \E x \in DOMAIN r.handlers : r.handlers[x] = h
                IN  /\ has(new, rts[j].handler) /\ ~has(new, rts[k].handler)
                    /\ new.params = {}
                    /\ has(num, rts[k].handler) /\ ~has(num, rts[j].handler)
                    /\ num.params = {<<"id", <<"42">>>>}

\* /users/:id was registered before /users/new, and /users/new was then
\* requested.
C11_Witness ==
  /\ Len(table) = 2
  /\ table[1].method = "GET" /\ table[1].pattern = UsersId
  /\ table[2].method = "GET" /\ table[2].pattern = UsersNew
  /\ last.op = "match"
  /\ TrieMatch(TheTrie("GET"), <<"users", "new">>) = Hit(<<2>>, {})
  /\ TrieMatch(TheTrie("GET"), <<"users", "42">>) = Hit(<<1>>, {<<"id", <<"42">>>>})

\* A literal edge led to a dead end and the parameter edge above it
\* answered.
C11_WitnessBacktrack ==
  /\ \E k \in DOMAIN table : table[k].method = "GET" /\ table[k].pattern = UsersNew
  /\ TrieMatch(TheTrie("GET"), <<"users", "42">>).params = {<<"a", <<"users">>>>}


\* C12: on a frozen table the strategy selector answers every request as
\* the structural matcher alone would: the same handler chain in the same
\* order with the same parameter bindings, or no match from both.
C12_AcceleratorEquivalence ==
  phase = "Frozen" =>
    \A m \in TableMethods, path \in ProbePaths :
      SelectorMatch(table, m, path) = TrieMatch(TheTrie(m), path)


\* /users/:id was registered before /users/new: the selector answers
\* /users/new by the parameter route, the structural matcher by the
\* literal route.
C12_PriorityInversion ==
  /\ phase = "Frozen" /\ last.op = "match"
  /\ Len(table) = 2
  /\ table[1].method = "GET" /\ table[1].pattern = UsersId
  /\ table[2].method = "GET" /\ table[2].pattern = UsersNew
  /\ SelectorMatch(table, "GET", <<"users", "new">>) = Hit(<<1>>, {<<"id", <<"new">>>>})
  /\ TrieMatch(TheTrie("GET"), <<"users", "new">>) = Hit(<<2>>, {})
  /\ last.result = <<1>>



\* Two patterns lead to the same node and leave it by parameters of
\* different names.
Clash(u, v) ==
  \E i \in DOMAIN u \cap DOMAIN v :
    /\ \A j \in 1..(i - 1) : u[j] = v[j]
    /\ u[i].kind = "param" /\ v[i].kind = "param" /\ u[i].text # v[i].text

Conflicts(rts, segs) ==
  \E k \in DOMAIN rts :
    \E u \in Variants(rts[k].segs), v \in Variants(segs) : Clash(u, v)

\* C13: an add whose pattern leaves a trie node by a parameter of another
\* name than the one registered there for that method fails with
\* AmbiguousRouteError and stores nothing, while every other well-formed
\* add on a building table succeeds; /users/:name after /users/:id is
\* such an add; every trie node keeps at most one parameter child and at
\* most one wildcard child, so a match never meets the ambiguity.
C13_AmbiguousAtAdd ==
  /\ \A m \in TableMethods : \A key \in DOMAIN TheTrie(m) :
        /\ Cardinality(Children(TheTrie(m), key, "param")) <= 1
        /\ Cardinality(Children(TheTrie(m), key, "wild")) <= 1
  /\ last.op = "match" => last.err = NoErr
  /\ (last.op = "add" /\ ~last.frozen /\ Compile(last.result[2]).err = NoErr) =>
        LET m == last.result[1]
            segs == Compile(last.result[2]).segs
            prior == IF last.err = NoErr THEN SubSeq(table, 1, Len(table) - 1) ELSE table
        IN  /\ last.err \in {NoErr, AmbiguousRouteError}
            /\ last.err = AmbiguousRouteError <=> Conflicts(MethodTable(prior, m), segs)
            /\ last.err = AmbiguousRouteError =>
                  routes = last.routesBefore /\ Len(table) = Len(routes)
            /\ (last.result[2] = UsersName
                  /\ \E k \in DOMAIN prior : prior[k].method = m /\ prior[k].pattern = UsersId)
                 => last.err = AmbiguousRouteError

\* /users/:name was refused for GET after /users/:id, having been
\* accepted for POST.
C13_Witness ==
  /\ last.op = "add" /\ last.result = <<"GET", UsersName>>
  /\ last.err = AmbiguousRouteError
  /\ Len(table) = 2
  /\ table[1].method = "GET" /\ table[1].pattern = UsersId
  /\ table[2].method = "POST" /\ table[2].pattern = UsersName


\* C14: a HEAD request is looked up under GET and every other request
\* under its own method, so the handlers that run for a HEAD request are
\* those of the chain a GET request matches, from its first handler on.
C14_HeadSharesGet ==
  \A r \in Reqs :
    (cfg[r].entry = "fiber" /\ top[r] # "idle") =>
      LET get == cfg[r].table["GET"]
          own == cfg[r].table[cfg[r].method]
      IN  /\ cfg[r].method = "HEAD" => match[r] = get
          /\ cfg[r].method # "HEAD" => match[r] = own
          /\ cfg[r].method = "HEAD" =>
                /\ get.found => \E f \in FIds(r) : Fr(r)[f].idx = 0
                /\ \A f \in FIds(r) :
                      Fr(r)[f].role \in {"handler", "direct"} =>
                        /\ Fr(r)[f].idx < Len(get.chain)
                        /\ Fr(r)[f].kind = get.chain[Fr(r)[f].idx + 1]

\* A HEAD request ran both handlers of the GET chain to the end.
C14_Witness ==
  \E r \in Reqs :
    /\ cfg[r].entry = "fiber" /\ cfg[r].method = "HEAD"
    /\ cfg[r].table["HEAD"] = NoMatch
    /\ cfg[r].table["GET"] = Found(<<"pass", "end">>)
    /\ AllSettled(r)
    /\ \E f, g \in FIds(r) : Fr(r)[f].kind = "pass" /\ Fr(r)[g].kind = "end"


\* C15: when route(prefix, sub) returns, the parent has registered, after
\* the routes it had, one route for each route of sub in sub's
\* registration order, with that route's method and the path
\* mergePath(prefix, its path), in Router.routes and in the matcher alike;
\* a route added to sub afterwards changes neither the parent's routes nor
\* what the parent matches.
C15_Mount ==
  /\ (last.op = "route" /\ last.err = NoErr) =>
        LET was == last.routesBefore
            n == Len(sub.routes)
        IN  /\ Len(routes) = Len(was) + n
            /\ Len(table) = Len(routes)
            /\ SubSeq(routes, 1, Len(was)) = was
            /\ \A k \in 1..n :
                  LET r == sub.routes[k]
                      own == routes[Len(was) + k]
                      reg == table[Len(was) + k]
                  IN  /\ own.method = r.method
                      /\ own.path = last.result \o r.path
                      /\ reg.method = r.method
                      /\ reg.pattern = last.result \o r.path
  /\ last.op = "subadd" =>
        /\ routes = last.routesBefore
        /\ MatchAll(table) = last.before

\* Two routes of sub, a parameter route and then a literal one, were
\* mounted under /api.
C15_Witness ==
  /\ last.op = "route" /\ last.err = NoErr /\ last.result = <<Lit("api")>>
  /\ Len(sub.routes) = 2
  /\ sub.routes[1].path = <<Par("id")>> /\ sub.routes[2].path = <<Lit("a")>>
  /\ Len(routes) = 2
  /\ routes[1].path = <<Lit("api"), Par("id")>>
  /\ routes[2].path = <<Lit("api"), Lit("a")>>

\* A route was added to sub after sub had been mounted.
C15_WitnessLater ==
  /\ last.op = "subadd" /\ last.err = NoErr
  /\ Len(sub.routes) = 2 /\ Len(routes) = 1


\* The onAbort callbacks registered so far, in registration order.
Registered ==
  LET isReg(c) == c.op = "onAbort"
      regs == SelectSeq([k \in DOMAIN calls |-> [op |-> calls[k].op, id |-> k]], isReg)
  IN  [k \in DOMAIN regs |-> <<"abort", regs[k].id>>]

Held(b) == IF b.buffer # NoBuffer THEN b.buffer ELSE SumSeq(b.chunks)

\* C17: a chunk that keeps the cumulative size within maxBytes is kept; a
\* chunk that takes it above maxBytes destroys the stream with the
\* RangeError, rejects every pending read with that error, leaves the
\* settled reads alone and discards what was buffered; a chunk that comes
\* after the stream was destroyed changes nothing.
C17_BodyLimit ==
  [][reqBody'.delivered = reqBody.delivered + 1 =>
       LET b == reqBody
           c == reqBody'
       IN  IF b.destroyed
           THEN c = [b EXCEPT !.delivered = c.delivered, !.chunk = c.chunk,
                              !.ended = c.ended]
           ELSE IF Held(b) + c.chunk <= MaxBytes
           THEN /\ ~c.destroyed /\ c.err = NoErr
                /\ Held(c) = Held(b) + c.chunk
                /\ \A k \in DOMAIN c.reads : c.reads[k].st # "rejected"
                                              \/ c.reads[k] = b.reads[k]
           ELSE /\ c.destroyed /\ c.err = RangeErrorMsg
                /\ c.chunks = <<>> /\ c.buffer = NoBuffer
                /\ c.cache = b.cache
                /\ \A k \in DOMAIN b.reads :
                      IF b.reads[k].st = "pending"
                      THEN /\ c.reads[k].st = "rejected"
                           /\ c.reads[k].err = RangeErrorMsg
                           /\ c.reads[k].val = NoBuffer
                      ELSE c.reads[k] = b.reads[k]]_vars

\* A chunk within the limit was buffered, a read waited for the body, the
\* next chunk went over the limit and a third chunk came after that.
C17_Witness ==
  /\ reqBody.delivered = 3
  /\ reqBody.destroyed /\ reqBody.err = RangeErrorMsg /\ ~reqBody.aborted
  /\ reqBody.totalSize = 3
  /\ reqBody.chunks = <<>>
  /\ Len(reqBody.reads) = 1
  /\ reqBody.reads[1].st = "rejected" /\ reqBody.reads[1].err = RangeErrorMsg

\* C18: a body read on a request whose method is none of POST, PUT, PATCH
\* and is not among the configured methods fails with the method error,
\* and a body read on an aborted request whose method is allowed fails
\* with the aborted error; in both cases the read returns no data and the
\* stream and the cache are as they were; any other read raises neither
\* error.
C18_ReadGuard ==
  [][Len(reqBody'.reads) = Len(reqBody.reads) + 1 =>
       LET b == reqBody
           r == reqBody'.reads[Len(reqBody'.reads)]
           allowed == b.method \in {"POST", "PUT", "PATCH"} \cup b.methods
           refused == r.st = "rejected" /\ r.val = NoBuffer
                      /\ reqBody' = [b EXCEPT !.reads = Append(@, r)]
       IN  /\ ~allowed => (refused /\ r.err = NotReadableMsg)
           /\ (allowed /\ b.aborted) => (refused /\ r.err = AbortedReadMsg)
           /\ (allowed /\ ~b.aborted) => r.err \notin {NotReadableMsg, AbortedReadMsg}]_vars

\* The client went away after a text had been read and cached, and a read
\* made after that was refused.
C18_Witness ==
  /\ reqBody.method = "POST" /\ reqBody.aborted
  /\ Len(reqBody.reads) = 2
  /\ reqBody.reads[1].kind = "textParse" /\ reqBody.reads[1].st = "resolved"
  /\ reqBody.reads[2].st = "rejected" /\ reqBody.reads[2].err = AbortedReadMsg
  /\ reqBody.cache = {}

\* A read on a GET request was refused, and one on a DELETE request that
\* the configuration allows was not.
C18_WitnessMethod ==
  \/ /\ reqBody.method = "GET" /\ Len(reqBody.reads) = 1
     /\ reqBody.reads[1].err = NotReadableMsg
  \/ /\ reqBody.method = "DELETE" /\ reqBody.methods = {"DELETE"}
     /\ Len(reqBody.reads) = 1 /\ reqBody.reads[1].st = "pending"


\* C20: the errorHandler middleware answers an HttpError with the error's
\* own status and its getBody(), and any other error with status 500;
\* with isDev false the body for such an error has the message
\* 'Something went wrong', no stack, and nowhere the error's own message
\* or stack; the status is the one written to the response when the
\* response is still open.
C20_ErrorHandler ==
  [][Len(handled') = Len(handled) + 1 =>
       LET h == handled'[Len(handled')]
           e == h.err
           new == {k \in DOMAIN res' : k > Len(res)}
       IN  /\ e.http =>
                 /\ h.status = e.status
                 /\ h.body = [status |-> e.status, error |-> e.name,
                              message |-> e.message, data |-> Null, code |-> Null]
           /\ ~e.http => h.status = InternalServerErrorStatus
                         /\ h.body.status = InternalServerErrorStatus
           /\ (~e.http /\ ~h.isDev) =>
                 /\ h.body.message = "Something went wrong"
                 /\ DOMAIN h.body = {"status", "error", "message"}
                 /\ h.body.message # e.message /\ h.body.error # e.message
                 /\ h.body.message # e.stack /\ h.body.error # e.stack
           /\ ~(ctx.finished \/ ctx.aborted) =>
                 /\ \E k \in new : res'[k].op = "writeStatus" /\ res'[k].a = h.status
                 /\ \E k \in new : res'[k].op \in {"end", "endWithoutBody"}]_vars

\* An HttpError was answered with its own status and body, and an error
\* of another kind with 500 and the fixed message, outside development.
C20_Witness ==
  /\ Len(handled) = 2
  /\ handled[1].err.http /\ handled[1].status = NotFoundStatus
  /\ handled[1].body.error = "NotFoundError"
  /\ ~handled[2].err.http /\ ~handled[2].isDev
  /\ handled[2].err.message = "secret detail"
  /\ handled[2].body = [status |-> InternalServerErrorStatus,
                        error |-> "InternalServerError",
                        message |-> "Something went wrong"]
  /\ \E k \in DOMAIN res : res[k].op = "writeStatus" /\ res[k].a = NotFoundStatus

\* The text reads of a request that was not aborted when they returned.
TextReturns ==
  {k \in DOMAIN reqBody.returned : reqBody.returned[k].st = "resolved"}

\* C21 (as claimed): every call of the text body reader on the same
\* un-aborted request returns the same string, the first call included.
C21_TextIdempotent ==
  ~reqBody.aborted =>
    \A j, k \in TextReturns : reqBody.returned[j].val = reqBody.returned[k].val

\* text() was called twice on a body with white space at its start: the
\* first call returned the body as sent, the second the trimmed cache.
C21_TrimmedSecondRead ==
  /\ reqBody.reader = "UwsRequest.text" /\ ~reqBody.aborted
  /\ reqBody.content = <<" ", "a">>
  /\ Len(reqBody.returned) = 2
  /\ reqBody.returned[1].val = <<" ", "a">>
  /\ reqBody.returned[2].val = <<"a">>

\* Request.textParse of part_002 returns what it caches: its reads agree.
C21_TrimmedReaderAgrees ==
  (reqBody.reader = "Request.textParse" /\ ~reqBody.aborted) =>
    \A j, k \in TextReturns : reqBody.returned[j].val = reqBody.returned[k].val

\* The frames that compose's dispatch created for a handler of the chain.
HandlerFrames(r) == {f \in FIds(r) : Fr(r)[f].role = "handler"}

\* The handlers of request r were invoked in chain order from index 0,
\* each but the first by the continuation of its predecessor.
InOrder(r) ==
  /\ LET en == SelectSeq(log[r], IsEnter)
     IN  \A k \in DOMAIN en : en[k].i = k - 1 /\ en[k].ctx = r
  /\ \A g \in HandlerFrames(r) :
       IF Fr(r)[g].idx = 0 THEN Fr(r)[g].parent = 0
       ELSE /\ Fr(r)[g].parent \in HandlerFrames(r)
            /\ Fr(r)[Fr(r)[g].parent].idx = Fr(r)[g].idx - 1
            /\ Fr(r)[Fr(r)[g].parent].nexts >= 1

\* C22 (as claimed): the handlers of a composed chain are invoked in
\* strictly increasing chain-index order from index 0; the handler at
\* index i + 1 is invoked only by the continuation of the handler at
\* index i, which that handler called, and with the same context.
C22_InvocationOrder ==
  \A r \in Reqs : top[r] \in {"composed", "caught"} => InOrder(r)

\* The second handler of a chain was invoked twice, by the two calls its
\* predecessor made of its continuation.
C22_SecondInvokedAgain ==
  \E r \in Reqs :
    /\ match[r].chain = <<"twice", "end">>
    /\ EnteredOf(r) = <<0, 1, 1>>

\* While no handler calls its continuation twice the order is as claimed.
C22_LinearOrder ==
  \A r \in Reqs : (top[r] \in {"composed", "caught"} /\ Linear(r)) => InOrder(r)

\* How often the handler at chain index i was invoked for request r.
Invocations(r, i) == Cardinality({k \in Events(r, "enter") : log[r][k].i = i})

\* C23 (as claimed): whatever the handlers do, each handler of a matched
\* chain is invoked at most once per request dispatch.
C23_AtMostOnce ==
  \A r \in Reqs : \A i \in 0..MaxChain : Invocations(r, i) <= 1

\* A request through Fiber whose first handler awaited next twice: the
\* second handler ran to its end twice.
C23_InvokedTwice ==
  \E r \in Reqs :
    /\ cfg[r].entry = "fiber"
    /\ match[r].chain = <<"twice", "end">>
    /\ AllSettled(r)
    /\ Invocations(r, 1) = 2
    /\ Events(r, "onError") = {}

\* The request's match result holds exactly one handler and the dispatcher
\* has gone through it.
SingleMatch(r) ==
  /\ top[r] \notin {"idle", "fallthrough"}
  /\ match[r].found /\ Len(match[r].chain) = 1

\* The single handler was invoked once, by the dispatcher itself; its
\* continuation invokes the not-found handler; its error, thrown or
\* rejected, went to the error handler.
SingleHandled(r) ==
  /\ Invocations(r, 0) = 1
  /\ HandlerFrames(r) = {}
  /\ Fr(r)[1].role = "direct"
  /\ \A g \in FIds(r) :
       Fr(r)[g].parent = 1 => (Fr(r)[g].role = "none" /\ Cardinality(NotFoundAt(r, g)) = 1)
  /\ (Failed(Fr(r)[1]) /\ Settled(Fr(r)[1])) =>
       /\ Fr(r)[1].err = HandlerErr(0)
       /\ OnErrorAt(r, 1, HandlerErr(0))

\* C24 (as claimed): a request whose match result holds exactly one
\* handler has that handler invoked exactly once, directly and without
\* compose, with a continuation that invokes the not-found handler, and an
\* error of the handler, synchronous or asynchronous, goes to the error
\* handler.
C24_SingleHandler ==
  \A r \in Reqs : SingleMatch(r) => SingleHandled(r)

\* Through #dispatch of app.ts the single handler returned and was then
\* invoked a second time, by compose.
C24_InvokedAgain ==
  \E r \in Reqs :
    /\ cfg[r].entry = "app"
    /\ match[r].chain = <<"end">>
    /\ AllSettled(r)
    /\ Len(Fr(r)) = 2 /\ Fr(r)[1].role = "direct" /\ Fr(r)[2].role = "handler"
    /\ Invocations(r, 0) = 2

\* Through #dispatch of ufiber.ts the single handler is dealt with as
\* claimed.
C24_UfiberSingle ==
  \A r \in Reqs : (cfg[r].entry = "fiber" /\ SingleMatch(r)) => SingleHandled(r)

\* Through ufiber.ts a single handler rejected after an await, and one
\* called its continuation: the error handler and the not-found handler ran.
C24_UfiberRejected ==
  \E r \in Reqs :
    /\ cfg[r].entry = "fiber" /\ match[r].chain = <<"reject">>
    /\ AllSettled(r) /\ OnErrorAt(r, 1, HandlerErr(0))

\* The calls that ended the underlying response.
Ends == {k \in DOMAIN res : res[k].op \in {"end", "endWithoutBody"}}

\* C25 (as claimed): whatever end, text, json, html and redirect calls are
\* made on one context, back to back or not, with any kind of body and for
\* HEAD as for GET, the underlying response is ended at most once.
C25_SentOnce == Cardinality(Ends) <= 1

\* text was called twice in one synchronous turn (the microtask of the
\* first call has not run) and both calls ended the response.
C25_EndedTwice ==
  /\ Len(calls) = 2
  /\ calls[1].op = "text" /\ calls[1].wrote
  /\ calls[2].op = "text" /\ calls[2].wrote
  /\ Len(micro) = 2
  /\ Cardinality(Ends) = 2

\* The end calls that wrote the response, and those of them given a
\* callback; the callbacks of end that have run.
EndWrites == {k \in DOMAIN calls : calls[k].op = "end" /\ calls[k].wrote}
EndCallbacks ==
  {k \in EndWrites : \E body \in BodyKinds : calls[k].arg = EndArg(body, TRUE)}
CallbackRuns == {k \in DOMAIN ran : ran[k][1] = "end"}

\* C26 (as claimed): after an end call that writes the response, whatever
\* the body and the method, finished becomes true and the callback, when
\* given, is invoked, and no callback is invoked more than once.
C26_EndCompletes ==
  /\ [](Cardinality(CallbackRuns) <= Cardinality(EndCallbacks))
  /\ \A n \in 1..MaxCalls :
       (Cardinality(EndWrites) = n) ~>
          (ctx.finished /\ (Cardinality(EndWrites) = n =>
                              Cardinality(CallbackRuns) = Cardinality(EndCallbacks)))

\* end(buffer, cb) wrote the response of a GET request; no microtask is
\* left, finished is false and the callback has not run.
C26_NeverFinished ==
  /\ ctx.method = "GET"
  /\ Len(calls) = 1 /\ calls[1].op = "end" /\ calls[1].wrote
  /\ calls[1].arg = EndArg("buffer", TRUE)
  /\ micro = <<>>
  /\ ~ctx.finished /\ ran = <<>>

\* After end with a string body on a request that is not HEAD, finished
\* becomes true and the callback is run.
C26_StringCompletes ==
  (ctx.method # "HEAD" /\ \E k \in EndWrites : \E cb \in BOOLEAN : calls[k].arg = EndArg("string", cb))
    ~> ctx.finished

\* The positions in the response's calls of the status line, the headers
\* and the end.
OpsAt(op) == {k \in DOMAIN res : res[k].op = op}

\* C27 (as claimed): the status line is written before any response
\* header, and every header is written before the response is ended.
C27_WriteOrder ==
  /\ \A j \in OpsAt("writeStatus"), k \in OpsAt("writeHeader") : j < k
  /\ \A j \in OpsAt("writeHeader"), k \in Ends : j < k

\* One json call on a new context: the two headers of the constructor and
\* the content type were written, then the status line, then the end.
C27_HeadersFirst ==
  /\ Len(calls) = 1 /\ calls[1].op = "json"
  /\ Len(res) = 5
  /\ \A k \in 1..3 : res[k].op = "writeHeader"
  /\ res[4].op = "writeStatus"
  /\ res[5].op \in {"end", "endWithoutBody"}

\* C28 (as claimed): the status written to the underlying response is 200
\* when no status code was set on the context, and the code set last
\* otherwise.
C28_StatusWritten ==
  [][\A k \in DOMAIN res' :
       (k > Len(res) /\ res'[k].op = "writeStatus") =>
         res'[k].a = IF ctx'.statusCode = NoStatus THEN DefaultStatus
                     ELSE ctx'.statusCode]_vars

\* end() on a context whose status was never set: the status line was
\* built from the undefined status code.
C28_UndefinedWritten ==
  /\ Len(calls) = 1 /\ calls[1].op = "end" /\ calls[1].wrote
  /\ ctx.statusCode = NoStatus
  /\ \E k \in OpsAt("writeStatus") : res[k].a = NoStatus /\ res[k].b = DefaultStatus

\* A status that was set is the one written, the last one set when
\* several were.
C28_SetStatusWritten ==
  [][\A k \in DOMAIN res' :
       (k > Len(res) /\ res'[k].op = "writeStatus" /\ ctx'.statusCode # NoStatus) =>
         res'[k].a = ctx'.statusCode]_vars

\* The events request r logs in this step.
NewEvents(r) == {k \in DOMAIN log'[r] : k > Len(log[r])}

\* The event is logged by a frame that compose's dispatch made for a
\* handler of the chain.
OfHandler(r, e) == frames'[r][e.f].role = "handler"

\* compose invokes the handler at index i with the route index at i.
IndexAtInvocation(r) ==
  \A k \in NewEvents(r) :
    (log'[r][k].ev = "enter" /\ OfHandler(r, log'[r][k])) =>
      routeIndex'[r] = log'[r][k].i

\* A step of the handler's own code, where it may read a parameter
\* (part_002:170-196 reads kMatch[0][routeIndex][1]), finds the route index
\* at the handler's own index.
IndexAtRead(r, evs) ==
  \A k \in NewEvents(r) :
    (log'[r][k].ev \in evs /\ OfHandler(r, log'[r][k])) =>
      routeIndex'[r] = log'[r][k].i

\* C29 (as claimed): when compose invokes the handler at chain index i
\* the route index of the context is i, and a parameter read inside that
\* handler resolves against the handler's own parameter map.
C29_RouteIndex ==
  [][\A r \in Reqs : IndexAtInvocation(r) /\ IndexAtRead(r, {"pre", "post"})]_vars

\* The first of two handlers is back from await next() and runs its own
\* code with the route index at the second handler's index.
C29_StaleIndex ==
  \E r \in Reqs :
    /\ cfg[r].entry = "compose"
    /\ match[r].chain = <<"pass", "end">>
    /\ Fr(r)[1].nexts = 1 /\ Running(r, 1) /\ Op(r, 1) = "ret"
    /\ Fr(r)[1].idx = 0 /\ routeIndex[r] = 1
    /\ log[r][Len(log[r])] = Event("post", 0, 1, r, NoErr)

\* The route index is the handler's own when the handler is invoked and
\* in the code it runs before it has called its continuation.
C29_IndexUntilNext ==
  [][\A r \in Reqs : IndexAtInvocation(r) /\ IndexAtRead(r, {"pre"})]_vars

\* The frames whose continuation led to frame f, nearest first or not.
RECURSIVE Upstream(_, _)
Upstream(r, f) ==
  IF Fr(r)[f].parent = 0 THEN {}
  ELSE {Fr(r)[f].parent} \cup Upstream(r, Fr(r)[f].parent)

\* The handler of frame f threw, synchronously or after an await.
Threw(r, f) ==
  /\ Called(Fr(r)[f])
  /\ Fr(r)[f].kind \in {"throw", "reject"}
  /\ Fr(r)[f].err # NoErr

\* The handler kinds with code of their own after the call of next.
HasPost(kind) == kind \in {"pass", "fire", "slow"}

PostRan(r, f) == \E k \in Events(r, "post") : log[r][k].f = f

\* C30: when a handler throws and the error handler returns without
\* throwing, the error handler is invoked exactly once for that error, the
\* promise of the throwing frame, which the handler above awaits, resolves,
\* and no handler upstream fails or ends without having run the code after
\* its continuation.
C30_LocalRecovery ==
  \A r \in Reqs : \A f \in FIds(r) :
    (cfg[r].onError = "ok" /\ Threw(r, f) /\ Settled(Fr(r)[f])) =>
      /\ Cardinality({k \in Events(r, "onError") :
                        log[r][k].f = f /\ log[r][k].err = HandlerErr(Fr(r)[f].idx)}) = 1
      /\ Cardinality({k \in Events(r, "onError") : log[r][k].f = f}) = 1
      /\ Fr(r)[f].st = "resolved"
      /\ \A a \in Upstream(r, f) :
           /\ Fr(r)[a].err = NoErr
           /\ Fr(r)[a].st \notin {"hfail", "rejected"}
           /\ Settled(Fr(r)[a]) => (HasPost(Fr(r)[a].kind) => PostRan(r, a))
           /\ (Fr(r)[a].child = f /\ Fr(r)[f].awaited /\ Fr(r)[a].st = "wait")
                => ENABLED Resume(r, a) \/ stack # <<>>

\* The third of three handlers rejected after an await; the error handler
\* took the error once and both handlers above ran the code after their
\* await, the second before the first.
C30_Witness ==
  \E r \in Reqs :
    /\ cfg[r].onError = "ok"
    /\ match[r].chain = <<"pass", "slow", "reject">>
    /\ AllSettled(r)
    /\ Len(Fr(r)) = 3 /\ Threw(r, 3)
    /\ Cardinality(Events(r, "onError")) = 1
    /\ \A f \in 1..3 : Fr(r)[f].st = "resolved"
    /\ StepsOf(r) = <<<<"pre", 0>>, <<"pre", 1>>, <<"post", 1>>, <<"post", 0>>>>

\* The frames of handlers that route() took over from a mounted router with
\* an error handler of its own, and that ended with an error of their own.
MountedFailed(r, f) ==
  /\ cfg[r].subOnError # DefaultOnError
  /\ Fr(r)[f].role \in {"handler", "direct"}
  /\ Fr(r)[f].idx \in cfg[r].mounted
  /\ Fr(r)[f].err = HandlerErr(Fr(r)[f].idx)
  /\ Settled(Fr(r)[f])

\* C31: an error thrown by a handler of a mounted router that had its own
\* error handler when it was mounted is delivered to that error handler,
\* and the error handler of the router it was mounted on is not invoked
\* for that error.
C31_SubErrorHandler ==
  \A r \in Reqs : \A f \in FIds(r) :
    MountedFailed(r, f) =>
      /\ \E k \in DOMAIN log[r] :
           /\ log[r][k].ev = "subError"
           /\ log[r][k].f = f
           /\ log[r][k].err = Fr(r)[f].err
      /\ \A k \in DOMAIN log[r] :
           log[r][k].ev = "onError" => log[r][k].err # Fr(r)[f].err

\* A handler of the mounted router, reached through next() of a handler of
\* the router itself, failed after an await, and the request is over.
C31_Witness ==
  \E r \in Reqs : \E f \in FIds(r) :
    /\ MountedFailed(r, f)
    /\ Fr(r)[f].idx = 1
    /\ 0 \notin cfg[r].mounted
    /\ Fr(r)[f].kind = "reject"
    /\ AllSettled(r)
    /\ stack = <<>>

\* The error handler of the mounted router threw in its turn: what it threw
\* is what the other error handler is given.
C31_WitnessEscalated ==
  \E r \in Reqs : \E f \in FIds(r) :
    /\ MountedFailed(r, f)
    /\ cfg[r].subOnError = "throws"
    /\ \E k \in DOMAIN log[r] :
         log[r][k].ev = "onError" /\ log[r][k].err = SubOnErrorErr

\* The step is a call of Router.#addRoute in which the matcher's add threw.
FailedAdd == last'.n = last.n + 1 /\ last'.op = "add" /\ last'.err # NoErr

\* C32: when the matcher's add throws for a route (pattern error, ambiguous
\* route, matcher already built), Router.routes is after the call what it
\* was before it, the failed route is not recorded, and what was registered
\* earlier is registered still: the matcher holds the routes it held and
\* every path matches what it matched.
C32_FailedAddUnchanged ==
  [][FailedAdd =>
       /\ last'.err \in {PatternError, AmbiguousRouteError,
                         MESSAGE_MATCHER_IS_ALREADY_BUILT}
       /\ routes' = routes
       /\ table' = table
       /\ \A path \in MatcherPaths :
            MatcherMatch(table', "GET", path) = MatcherMatch(table, "GET", path)]_vars

\* An add was refused as ambiguous with a route registered before it, and
\* that route is still the one recorded.
C32_Witness ==
  /\ last.op = "add"
  /\ last.err = AmbiguousRouteError
  /\ routes # <<>>
  /\ routes = last.routesBefore
  /\ Len(table) = Len(routes)

\* An add was refused for its pattern, and one because the matcher was
\* built, each after a route had been registered.
C32_WitnessPattern ==
  last.op = "add" /\ last.err = PatternError /\ routes # <<>>

C32_WitnessBuilt ==
  /\ last.op = "add"
  /\ last.err = MESSAGE_MATCHER_IS_ALREADY_BUILT
  /\ routes # <<>>

\* The k-th call on the context registered an abort callback.
IsOnAbort(k) == k \in DOMAIN calls /\ calls[k].op = "onAbort"

\* That callback has been invoked.
AbortRan(k) == \E j \in DOMAIN ran : ran[j] = <<"abort", k>>

\* C33: every callback passed to onAbort on a request that is or becomes
\* aborted is eventually invoked, a callback registered after the abort
\* notification was processed included.
C33_AbortCallbacksRun ==
  \A k \in 1..MaxCalls : (IsOnAbort(k) /\ ctx.aborted) ~> AbortRan(k)

\* A callback was registered on a context already aborted: it sits in the
\* emptied list, which nothing reads again.
C33_LateCallbackDropped ==
  \E k \in DOMAIN calls :
    /\ IsOnAbort(k)
    /\ calls[k].aborted
    /\ ctx.aborted
    /\ ctx.aborts = <<k>>
    /\ ~AbortRan(k)
    /\ notified = MaxNotify

\* The callbacks registered before the abort was processed have all been
\* invoked once the context is aborted.
C33_EarlyCallbacksRun ==
  \A k \in DOMAIN calls :
    (IsOnAbort(k) /\ ~calls[k].aborted /\ ctx.aborted) => AbortRan(k)

\* Once the context is aborted no callback is invoked any more.
C33_NothingRunsLater ==
  [][ctx.aborted => \A k \in 1..MaxCalls : AbortRan(k)' = AbortRan(k)]_vars

\* The promise the composed function returned: that of dispatch(0).
ComposedSettled(r) == Fr(r) # <<>> /\ Settled(Fr(r)[1])

\* C34: the promise returned by a composed function over a finite chain of
\* handlers whose own work terminates and who await every continuation
\* they invoke eventually settles; it rejects only when an error reached
\* the top and no error handler answered it; and when it settles every
\* handler that was invoked has finished.
C34_Termination ==
  /\ (top[1] = "composed") ~> ComposedSettled(1)
  /\ [](ComposedSettled(1) =>
          /\ \A f \in FIds(1) : Called(Fr(1)[f]) => HandlerDone(Fr(1)[f])
          /\ stack = <<>>
          /\ Fr(1)[1].st = "rejected" =>
               (Fr(1)[1].rej # NoErr /\ cfg[1].onError # "ok"))

\* Three handlers were invoked, one of them after work of its own that it
\* awaited, and the promise resolved after all of them.
C34_Witness ==
  /\ ComposedSettled(1)
  /\ Fr(1)[1].st = "resolved"
  /\ Len(cfg[1].chain) = MaxChain
  /\ \E f \in FIds(1) : Fr(1)[f].kind = "slow" /\ Fr(1)[f].idx > 0
  /\ \A i \in 0..(MaxChain - 1) : \E f \in FIds(1) :
       Fr(1)[f].idx = i /\ Fr(1)[f].role = "handler" /\ HandlerDone(Fr(1)[f])

\* An error reached the top with no error handler: the promise rejected.
C34_WitnessRejected ==
  /\ ComposedSettled(1)
  /\ Fr(1)[1].st = "rejected"
  /\ cfg[1].onError = "none"
  /\ \E f \in FIds(1) : Fr(1)[f].idx > 0 /\ Fr(1)[f].kind = "reject"
====
